---- MODULE Spec2Model ----
(***************************************************************************)
(* Icon resolution and caching engine of QuickStart                        *)
(* (backend/system_manager.py, backend/file_manager.py, backend/app.py).   *)
(*                                                                         *)
(* One behaviour is one process lifetime on one machine.  The machine      *)
(* (which entry is on disk, which OS calls fail, whether the imaging       *)
(* library imported, whether cache I/O works) is chosen in Init and kept   *)
(* in env; the handlers are then translated statement by statement.        *)
(* Every handler threads a record m = [cache, tr, dir]: the cache files,   *)
(* contents and the trace of the OS-level events the handler performed.    *)
(***************************************************************************)
EXTENDS Integers, Sequences, FiniteSets, TLC

VARIABLES env, cache, cache_dir, remove_arrow, _config_cache, icon_cache,
          lnk_icon_cache, last, inflight, io, asset, canvas, gdi

vars == <<env, cache, cache_dir, remove_arrow, _config_cache, icon_cache, lnk_icon_cache, last, inflight, io, asset, canvas, gdi>>

(***************************************************************************)
(* Paths.  A path is the string as given, split at its last dot so that    *)
(* lower().endswith() can be computed.                                     *)
(***************************************************************************)
Path(stem, ext) == [stem |-> stem, ext |-> ext]

NoPath == Path("", "")

FILE_PATH == Path("C:\\app", ".exe")

LNK_PATH == Path("C:\\s", ".LNK")

URL_PATH == Path("C:\\w", ".url")

TARGET_PATH == Path("C:\\tgt", ".exe")

ICO_PATH == Path("C:\\icons\\app", ".ico")

DLL_PATH == Path("C:\\icons\\res", ".dll")

MISSING_ICO == Path("C:\\icons\\lost", ".ico")

\* a shortcut that is not on disk
GONE_PATH == Path("C:\\gone", ".lnk")

\* FILE_PATH as a request may also spell it: relative to the working
\* directory C:\, and in another case (the file system ignores case)
REL_PATH == Path("app", ".exe")

UPPER_PATH == Path("C:\\APP", ".EXE")

\* the file a path string names
NameOnDisk(p) == IF p \in {REL_PATH, UPPER_PATH} THEN FILE_PATH ELSE p

\* os.path.abspath with the working directory C:\ (case is kept)
Abspath(p) == IF p = REL_PATH THEN FILE_PATH ELSE p

\* the entries of the file list; exactly one of them is on disk (env.present)
Entries == {FILE_PATH, LNK_PATH, URL_PATH}

\* the paths that requests name
Paths == Entries \cup {GONE_PATH}

\* str.lower() on the extensions that occur
Lower(s) ==
  CASE s = ".LNK" -> ".lnk"
    [] s = ".URL" -> ".url"
    [] s = ".ICO" -> ".ico"
    [] s = ".EXE" -> ".exe"
    [] OTHER -> s

\* file_path.lower().endswith(suffix)
EndsWithLower(p, suffix) == Lower(p.ext) = suffix

(***************************************************************************)
(* Byte strings.  A blob records its encoding and which picture it holds.  *)
(***************************************************************************)
Blob(fmt, pic, api, tgt, idx, ov, arrow) ==
  [fmt |-> fmt, pic |-> pic, api |-> api, tgt |-> tgt, idx |-> idx,
   ov |-> ov, arrow |-> arrow]

\* Python None where bytes are expected
None == Blob("none", "-", "-", NoPath, 0, FALSE, FALSE)

\* Image.new('RGBA', (64, 64), (200, 200, 200, 255)) saved as PNG
GrayPng == Blob("png", "gray", "-", NoPath, 0, FALSE, FALSE)

\* truthiness of Optional[bytes]
Truthy(b) == b.fmt \notin {"none", "empty"}

\* base64.b64encode(data).decode('utf-8'), and the absent result
B64(b) == [kind |-> "b64", data |-> b]

\* f"data:image/png;base64,{img_str}"
DataUri(b) == [kind |-> "datauri", data |-> b]

NoResult == [kind |-> "none", data |-> None]

(***************************************************************************)
(* Native icon handles and the event trace of a handler.                   *)
(***************************************************************************)
Handle(id, api, tgt, idx, ov) ==
  [id |-> id, api |-> api, tgt |-> tgt, idx |-> idx, ov |-> ov]

NoHandle == Handle(0, "-", NoPath, 0, FALSE)

Event(ev, h, api, tgt, idx, ov) ==
  [ev |-> ev, h |-> h, api |-> api, tgt |-> tgt, idx |-> idx, ov |-> ov]

Log(m, e) == [m EXCEPT !.tr = Append(@, e)]

Count(tr, ev) == Cardinality({i \in DOMAIN tr : tr[i].ev = ev})

\* a fresh handle identifier
NextId(m) == Count(m.tr, "acquire") + 1

Ret(v, m) == [ret |-> v, m |-> m]

\* "name = value" followed by the statements that use the name
With(value, Rest(_)) == Rest(value)

(***************************************************************************)
(* Persistent icon cache.  md5(path) is taken as injective: a cache file   *)
(* is identified by the path string and the variant suffix.                *)
(***************************************************************************)
Suffix(with_arrow) == IF with_arrow THEN "_arrow" ELSE "_plain"

\* the cache file name with the path folded to one case before hashing
CacheFile_CaseFolded(file_path, with_arrow) ==
  <<IF file_path = UPPER_PATH THEN FILE_PATH ELSE file_path, Suffix(with_arrow)>>

\* md5 of the path string as given, then the suffix: distinct strings have
\* distinct digests
CacheFile(file_path, with_arrow) == <<file_path, Suffix(with_arrow)>>

CacheFiles == {CacheFile(p, w) : p \in Paths, w \in BOOLEAN}

_get_cached_icon(m, e, file_path, with_arrow) ==
  LET f == CacheFile(file_path, with_arrow)
      hit == Log(m, Event("hit", 0, "-", file_path, 0, with_arrow))
      miss == Log(m, Event("miss", 0, "-", file_path, 0, with_arrow))
  IN IF m.cache[f] # None
     THEN IF e.cacheR THEN Ret(m.cache[f], hit) ELSE Ret(None, miss)
     ELSE Ret(None, miss)

\* _save_icon_to_cache writing under the other variant's file name
_save_icon_to_cache_OtherSlot(m, e, file_path, icon_data, with_arrow) ==
  IF ~Truthy(icon_data) THEN m
  ELSE IF m.dir /\ e.cacheW
  THEN [Log(m, Event("store", 0, "-", file_path, 0, with_arrow))
          EXCEPT !.cache[CacheFile(file_path, ~with_arrow)] = icon_data]
  ELSE m

\* open(cache_file, 'wb') raises when the directory is missing or the write is
\* refused; the handler swallows it
_save_icon_to_cache(m, e, file_path, icon_data, with_arrow) ==
  IF ~Truthy(icon_data) THEN m
  ELSE IF m.dir /\ e.cacheW
       THEN [Log(m, Event("store", 0, "-", file_path, 0, with_arrow))
               EXCEPT !.cache[CacheFile(file_path, with_arrow)] = icon_data]
       ELSE m

(***************************************************************************)
(* Handle-scoped extractor and bitmap renderer.                            *)
(***************************************************************************)
Acquire(m, api, tgt, idx, ov) ==
  LET h == Handle(NextId(m), api, tgt, idx, ov)
  IN Ret(h, Log(m, Event("acquire", h.id, api, tgt, idx, ov)))

DestroyIcon(m, h) == Log(m, Event("release", h.id, h.api, h.tgt, h.idx, h.ov))

Native(m, api, tgt, idx, ov) == Log(m, Event("native", 0, api, tgt, idx, ov))

\* whether the shell has any icon to give for file_path: the resolved target
\* of a link may exist and still yield none (e.link = "target_no_icon")
HasIcon(e, file_path) == ~(file_path = TARGET_PATH /\ e.link = "target_no_icon")

\* _extract_icon without the DestroyIcon(small_icons[0]) of line 237
_extract_icon_KeepSmall(m, e, file_path) ==
  LET m1 == Native(m, "ExtractIconExW", file_path, 0, FALSE)
  IN IF e.extractOK /\ HasIcon(e, file_path)
     THEN LET large == Acquire(m1, "ExtractIconExW", file_path, 0, FALSE)
              small == Acquire(large.m, "ExtractIconExW.small", file_path, 0, FALSE)
          IN Ret(large.ret, small.m)
     ELSE Ret(NoHandle, m1)

\* ExtractIconExW(file_path, 0, large, small, 1): the small icon is destroyed
_extract_icon(m, e, file_path) ==
  LET m1 == Native(m, "ExtractIconExW", file_path, 0, FALSE)
  IN IF e.extractOK /\ HasIcon(e, file_path)
     THEN LET large == Acquire(m1, "ExtractIconExW", file_path, 0, FALSE)
              small == Acquire(large.m, "ExtractIconExW.small", file_path, 0, FALSE)
          IN Ret(large.ret, DestroyIcon(small.m, small.ret))
     ELSE Ret(NoHandle, m1)

\* SHGetFileInfoW(file_path, 0, info, size, flags); ov is SHGFI_LINKOVERLAY
_get_file_info(m, e, file_path, ov) ==
  LET m1 == Native(m, "SHGetFileInfoW", file_path, 0, ov)
      ok == (IF ov THEN e.overlayOK ELSE e.infoOK) /\ HasIcon(e, file_path)
  IN IF ok THEN Acquire(m1, "SHGetFileInfoW", file_path, 0, ov)
     ELSE Ret(NoHandle, m1)

RawBits(h) == Blob("raw", "icon", h.api, h.tgt, h.idx, h.ov, FALSE)

PngOf(h) == Blob("png", "icon", h.api, h.tgt, h.idx, h.ov, FALSE)

\* Image.open(io.BytesIO(data)): only encoded images can be opened
CanOpen(data) == data.fmt = "png"

\* the composite, PNG-encoded, or None
_add_arrow_to_icon(e, img) ==
  IF ~e.pil THEN None
  ELSE IF e.arrowOK THEN [img EXCEPT !.arrow = TRUE]
  ELSE None

\* the blank icon of the outermost handler
BlankIcon(e) == IF e.pil THEN GrayPng ELSE None

\* what kind of value the renderer handed back
Tag(out) ==
  IF out.fmt = "none" THEN "none"
  ELSE IF out.fmt = "raw" THEN "raw"
  ELSE IF out.pic = "gray" THEN "gray-png"
  ELSE "png"

Rendered(m, hicon, out) ==
  Ret(out, Log(m, Event("render", hicon.id, Tag(out), hicon.tgt, hicon.idx, hicon.ov)))

_icon_to_bitmap(m, e, ra, hicon, add_arrow) ==
  LET show_arrow == add_arrow /\ ~ra
      drawn == Log(m, Event("draw", hicon.id, hicon.api, hicon.tgt, hicon.idx, hicon.ov))
  IN IF e.render = "surface" THEN Rendered(m, hicon, BlankIcon(e))
     ELSE IF e.render \in {"draw", "bits"} THEN Rendered(drawn, hicon, BlankIcon(e))
     ELSE IF ~e.pil THEN Rendered(drawn, hicon, RawBits(hicon))
     ELSE IF e.render = "conv" THEN Rendered(drawn, hicon, RawBits(hicon))
     ELSE IF show_arrow
          THEN LET img == _add_arrow_to_icon(e, PngOf(hicon))
               IN IF Truthy(img) THEN Rendered(drawn, hicon, img)
                  ELSE Rendered(drawn, hicon, RawBits(hicon))
          ELSE Rendered(drawn, hicon, PngOf(hicon))

get_icon_win32(m, e, ra, file_path) ==
  With(_extract_icon(m, e, file_path), LAMBDA x :
  With(IF x.ret # NoHandle THEN x
       ELSE _get_file_info(x.m, e, file_path, FALSE), LAMBDA h :
    IF h.ret = NoHandle THEN Ret(None, h.m)
    ELSE With(_icon_to_bitmap(h.m, e, ra, h.ret, FALSE), LAMBDA bmp :
           Ret(bmp.ret, DestroyIcon(bmp.m, h.ret)))))

(***************************************************************************)
(* Internet-shortcut resolver.                                             *)
(***************************************************************************)
\* A line of a .url file: "<key>=<text>"; isInt tells whether int(text) parses
Line(key, path, isInt, n) == [key |-> key, path |-> path, isInt |-> isInt, n |-> n]

IconFileLine(p) == Line("IconFile", p, FALSE, 0)

IconIndexLine(n) == Line("IconIndex", NoPath, TRUE, n)

BadIndexLine == Line("IconIndex", NoPath, FALSE, 0)

UrlLine == Line("URL", NoPath, FALSE, 0)

HeaderLine == Line("[InternetShortcut]", NoPath, FALSE, 0)

Fields(icon_file, icon_index, url) ==
  [icon_file |-> icon_file, icon_index |-> icon_index, url |-> url]

DefaultFields == Fields(NoPath, 0, FALSE)

\* the loop body with a non-integer IconIndex resetting the index to 0
ParseLine_BadIndexResets(fs, line) ==
  IF line.key = "IconFile" THEN [fs EXCEPT !.icon_file = line.path]
  ELSE IF line.key = "IconIndex"
       THEN IF line.isInt THEN [fs EXCEPT !.icon_index = line.n]
            ELSE [fs EXCEPT !.icon_index = 0]
  ELSE IF line.key = "URL" THEN [fs EXCEPT !.url = TRUE]
  ELSE fs

\* the body of "for line in f"
ParseLine(fs, line) ==
  IF line.key = "IconFile" THEN [fs EXCEPT !.icon_file = line.path]
  ELSE IF line.key = "IconIndex"
       THEN IF line.isInt THEN [fs EXCEPT !.icon_index = line.n] ELSE fs
  ELSE IF line.key = "URL" THEN [fs EXCEPT !.url = TRUE]
  ELSE fs

RECURSIVE ParseLines(_, _)
ParseLines(fs, lines) ==
  IF lines = <<>> THEN fs
  ELSE ParseLines(ParseLine(fs, Head(lines)), Tail(lines))

\* open(file_path) and the parse loop; an unreadable file leaves the defaults
ParseUrlFile(e) ==
  IF e.urlReadable THEN ParseLines(DefaultFields, e.urlText) ELSE DefaultFields

\* os.path.exists for the paths the engine tests
Exists(e, p) ==
  \/ NameOnDisk(p) = e.present
  \/ p = TARGET_PATH /\ e.link \in {"target_exists", "target_no_icon"}
  \/ p \in {ICO_PATH, DLL_PATH}

\* ico.seek(icon_index) when n_frames > icon_index, else the first frame
IcoFrame(e, icon_index) == IF e.icoFrames > icon_index THEN icon_index ELSE 0

\* cache both variants whenever the composite can be made, return by setting
WithArrowVariant(m, e, ra, file_path, original_icon_data) ==
  LET arrow_icon_data == _add_arrow_to_icon(e, original_icon_data)
      m1 == _save_icon_to_cache(m, e, file_path, arrow_icon_data, TRUE)
  IN IF e.pil /\ CanOpen(original_icon_data) /\ Truthy(arrow_icon_data)
     THEN Ret(IF ra THEN original_icon_data ELSE arrow_icon_data, m1)
     ELSE Ret(original_icon_data, m)

\* lines 448-498: IconFile read with the imaging library
UrlIcoBranch(m, e, ra, file_path, fs) ==
  LET m1 == Native(m, "IcoRead", fs.icon_file, fs.icon_index, FALSE)
      img == Blob("png", "icon", "IcoRead", fs.icon_file,
                  IcoFrame(e, fs.icon_index), FALSE, FALSE)
      m2 == _save_icon_to_cache(
              Log(m1, Event("decode", 0, "png", fs.icon_file, img.idx, FALSE)),
              e, file_path, img, FALSE)
      arrow_icon_data == _add_arrow_to_icon(e, img)
      m3 == _save_icon_to_cache(m2, e, file_path, arrow_icon_data, TRUE)
  IN IF ~e.icoOK THEN [done |-> FALSE, ret |-> None, m |-> m1]
     ELSE [done |-> TRUE,
           ret |-> IF ra THEN img
                   ELSE IF Truthy(arrow_icon_data) THEN arrow_icon_data ELSE img,
           m |-> m3]

\* lines 500-553: SHGetFileInfoW on the shortcut file itself
UrlShellBranch(m, e, ra, file_path) ==
  With(_get_file_info(m, e, file_path, FALSE), LAMBDA fi :
    IF fi.ret = NoHandle THEN [done |-> FALSE, ret |-> None, m |-> fi.m]
    ELSE With(_icon_to_bitmap(fi.m, e, ra, fi.ret, FALSE), LAMBDA bmp :
         With(DestroyIcon(bmp.m, fi.ret), LAMBDA m1 :
           IF ~Truthy(bmp.ret) THEN [done |-> FALSE, ret |-> None, m |-> m1]
           ELSE With(WithArrowVariant(
                       _save_icon_to_cache(m1, e, file_path, bmp.ret, FALSE),
                       e, ra, file_path, bmp.ret), LAMBDA r :
                  [done |-> TRUE, ret |-> r.ret, m |-> r.m]))))

\* lines 555-584: get_icon_win32 on the shortcut file itself
UrlWin32Branch(m, e, ra, file_path) ==
  With(get_icon_win32(m, e, ra, file_path), LAMBDA w :
    IF ~Truthy(w.ret) THEN Ret(None, w.m)
    ELSE WithArrowVariant(_save_icon_to_cache(w.m, e, file_path, w.ret, FALSE),
                          e, ra, file_path, w.ret))

get_url_icon(m, e, ra, file_path) ==
  With(_get_cached_icon(m, e, file_path, FALSE), LAMBDA cp :
  With(_get_cached_icon(cp.m, e, file_path, TRUE), LAMBDA ca :
  With(ParseUrlFile(e), LAMBDA fs :
  With(/\ fs.icon_file # NoPath /\ Exists(e, fs.icon_file)
       /\ EndsWithLower(fs.icon_file, ".ico") /\ e.pil, LAMBDA useIco :
  With(IF Truthy(cp.ret) /\ ~ra THEN ca.m ELSE cp.m, LAMBDA m0 :
    IF Truthy(cp.ret) /\ ra THEN Ret(cp.ret, cp.m)
    ELSE IF Truthy(cp.ret) /\ Truthy(ca.ret) THEN Ret(ca.ret, ca.m)
    ELSE With(IF useIco THEN UrlIcoBranch(m0, e, ra, file_path, fs)
              ELSE [done |-> FALSE, ret |-> None, m |-> m0], LAMBDA ico :
           IF ico.done THEN Ret(ico.ret, ico.m)
           ELSE With(UrlShellBranch(ico.m, e, ra, file_path), LAMBDA sh :
                  IF sh.done THEN Ret(sh.ret, sh.m)
                  ELSE UrlWin32Branch(sh.m, e, ra, file_path))))))))

(***************************************************************************)
(* Link resolver.                                                          *)
(***************************************************************************)
CoInitialize(m) == Log(m, Event("coinit", 0, "-", NoPath, 0, FALSE))

CoUninitialize(m) == Log(m, Event("couninit", 0, "-", NoPath, 0, FALSE))

\* the icon location the loaded shell link carries (IShellLink icon path and
\* index); get_lnk_icon loads the link at lines 613-619 and never reads it
LnkIconLocation == [icon_file |-> DLL_PATH, icon_index |-> 2]

\* LnkTargetBranch extracting from the shortcut file instead of its target
LnkTargetBranch_OnShortcut(m, e, ra, file_path) ==
  With(Native(CoInitialize(m), "ShellLinkLoad", file_path, 0, FALSE), LAMBDA m1 :
    IF e.link = "load_fails" \/ ~Exists(e, TARGET_PATH)
    THEN [done |-> FALSE, ret |-> None, m |-> CoUninitialize(m1)]
    ELSE With(get_icon_win32(m1, e, ra, file_path), LAMBDA w :
         With(_save_icon_to_cache(w.m, e, file_path, w.ret, FALSE), LAMBDA m2 :
         With(_add_arrow_to_icon(e, w.ret), LAMBDA arrow_icon_data :
           IF ~Truthy(w.ret)
           THEN [done |-> FALSE, ret |-> None, m |-> CoUninitialize(w.m)]
           ELSE IF ~ra /\ e.pil /\ CanOpen(w.ret) /\ Truthy(arrow_icon_data)
           THEN [done |-> TRUE, ret |-> arrow_icon_data,
                 m |-> CoUninitialize(CoUninitialize(
                         _save_icon_to_cache(m2, e, file_path,
                                             arrow_icon_data, TRUE)))]
           ELSE [done |-> TRUE, ret |-> w.ret,
                 m |-> CoUninitialize(CoUninitialize(m2))]))))

\* LnkTargetBranch returning the composite without the store of line 640
LnkTargetBranch_NoArrowStore(m, e, ra, file_path) ==
  With(Native(CoInitialize(m), "ShellLinkLoad", file_path, 0, FALSE), LAMBDA m1 :
    IF e.link = "load_fails" \/ ~Exists(e, TARGET_PATH)
    THEN [done |-> FALSE, ret |-> None, m |-> CoUninitialize(m1)]
    ELSE With(get_icon_win32(m1, e, ra, TARGET_PATH), LAMBDA w :
         With(_save_icon_to_cache(w.m, e, file_path, w.ret, FALSE), LAMBDA m2 :
         With(_add_arrow_to_icon(e, w.ret), LAMBDA arrow_icon_data :
           IF ~Truthy(w.ret)
           THEN [done |-> FALSE, ret |-> None, m |-> CoUninitialize(w.m)]
           ELSE IF ~ra /\ e.pil /\ CanOpen(w.ret) /\ Truthy(arrow_icon_data)
           THEN [done |-> TRUE, ret |-> arrow_icon_data,
                 m |-> CoUninitialize(CoUninitialize(m2))]
           ELSE [done |-> TRUE, ret |-> w.ret,
                 m |-> CoUninitialize(CoUninitialize(m2))]))))

\* lines 606-655: the icon of the resolved target; the finally clause runs on
\* every exit, after the CoUninitialize that precedes each return
LnkTargetBranch(m, e, ra, file_path) ==
  With(Native(CoInitialize(m), "ShellLinkLoad", file_path, 0, FALSE), LAMBDA m1 :
    IF e.link = "load_fails" \/ ~Exists(e, TARGET_PATH)
    THEN [done |-> FALSE, ret |-> None, m |-> CoUninitialize(m1)]
    ELSE With(get_icon_win32(m1, e, ra, TARGET_PATH), LAMBDA w :
         With(_save_icon_to_cache(w.m, e, file_path, w.ret, FALSE), LAMBDA m2 :
         With(_add_arrow_to_icon(e, w.ret), LAMBDA arrow_icon_data :
           IF ~Truthy(w.ret)
           THEN [done |-> FALSE, ret |-> None, m |-> CoUninitialize(w.m)]
           ELSE IF ~ra /\ e.pil /\ CanOpen(w.ret) /\ Truthy(arrow_icon_data)
           THEN [done |-> TRUE, ret |-> arrow_icon_data,
                 m |-> CoUninitialize(CoUninitialize(
                         _save_icon_to_cache(m2, e, file_path,
                                             arrow_icon_data, TRUE)))]
           ELSE [done |-> TRUE, ret |-> w.ret,
                 m |-> CoUninitialize(CoUninitialize(m2))]))))

\* LnkArrowVariant compositing first and asking for the native overlay second
LnkArrowVariant_CompositeFirst(m, e, ra, file_path, original_icon_data) ==
  With(_add_arrow_to_icon(e, original_icon_data), LAMBDA arrow_icon_data :
    IF e.pil /\ CanOpen(original_icon_data) /\ Truthy(arrow_icon_data)
    THEN Ret(arrow_icon_data,
             _save_icon_to_cache(m, e, file_path, arrow_icon_data, TRUE))
    ELSE With(_get_file_info(m, e, file_path, TRUE), LAMBDA fi :
         With(_icon_to_bitmap(fi.m, e, ra, fi.ret, FALSE), LAMBDA bmp :
         With(IF fi.ret = NoHandle THEN fi.m ELSE DestroyIcon(bmp.m, fi.ret), LAMBDA m1 :
           IF fi.ret # NoHandle /\ Truthy(bmp.ret)
           THEN Ret(bmp.ret, _save_icon_to_cache(m1, e, file_path, bmp.ret, TRUE))
           ELSE Ret(original_icon_data, m1)))))

\* lines 697-730: the indicator variant, native overlay first, composite second
LnkArrowVariant(m, e, ra, file_path, original_icon_data) ==
  With(_get_file_info(m, e, file_path, TRUE), LAMBDA fi :
  With(_icon_to_bitmap(fi.m, e, ra, fi.ret, FALSE), LAMBDA bmp :
  With(IF fi.ret = NoHandle THEN fi.m ELSE DestroyIcon(bmp.m, fi.ret), LAMBDA m1 :
  With(_add_arrow_to_icon(e, original_icon_data), LAMBDA arrow_icon_data :
    IF fi.ret # NoHandle /\ Truthy(bmp.ret)
    THEN Ret(bmp.ret, _save_icon_to_cache(m1, e, file_path, bmp.ret, TRUE))
    ELSE IF e.pil /\ CanOpen(original_icon_data) /\ Truthy(arrow_icon_data)
    THEN Ret(arrow_icon_data,
             _save_icon_to_cache(m1, e, file_path, arrow_icon_data, TRUE))
    ELSE Ret(original_icon_data, m1)))))

\* LnkShellBranch without the store of the plain variant at line 695
LnkShellBranch_NoPlainStore(m, e, ra, file_path) ==
  With(_get_file_info(m, e, file_path, FALSE), LAMBDA fi :
    IF fi.ret = NoHandle THEN Ret(None, fi.m)
    ELSE With(_icon_to_bitmap(fi.m, e, ra, fi.ret, FALSE), LAMBDA bmp :
         With(DestroyIcon(bmp.m, fi.ret), LAMBDA m1 :
           IF ~Truthy(bmp.ret) THEN Ret(None, m1)
           ELSE IF ~ra THEN LnkArrowVariant(m1, e, ra, file_path, bmp.ret)
           ELSE Ret(bmp.ret, m1))))

\* LnkShellBranch storing the plain variant after the indicator variant
LnkShellBranch_ArrowFirst(m, e, ra, file_path) ==
  With(_get_file_info(m, e, file_path, FALSE), LAMBDA fi :
    IF fi.ret = NoHandle THEN Ret(None, fi.m)
    ELSE With(_icon_to_bitmap(fi.m, e, ra, fi.ret, FALSE), LAMBDA bmp :
         With(DestroyIcon(bmp.m, fi.ret), LAMBDA m1 :
           IF ~Truthy(bmp.ret) THEN Ret(None, m1)
           ELSE IF ~ra
           THEN With(LnkArrowVariant(m1, e, ra, file_path, bmp.ret), LAMBDA r :
                  Ret(r.ret, _save_icon_to_cache(r.m, e, file_path, bmp.ret, FALSE)))
           ELSE Ret(bmp.ret, _save_icon_to_cache(m1, e, file_path, bmp.ret, FALSE)))))

\* lines 657-739: SHGetFileInfoW on the shortcut file itself
LnkShellBranch(m, e, ra, file_path) ==
  With(_get_file_info(m, e, file_path, FALSE), LAMBDA fi :
    IF fi.ret = NoHandle THEN Ret(None, fi.m)
    ELSE With(_icon_to_bitmap(fi.m, e, ra, fi.ret, FALSE), LAMBDA bmp :
         With(DestroyIcon(bmp.m, fi.ret), LAMBDA m1 :
         With(_save_icon_to_cache(m1, e, file_path, bmp.ret, FALSE), LAMBDA m2 :
           IF ~Truthy(bmp.ret) THEN Ret(None, m1)
           ELSE IF ~ra THEN LnkArrowVariant(m2, e, ra, file_path, bmp.ret)
           ELSE Ret(bmp.ret, m2)))))

get_lnk_icon(m, e, ra, file_path) ==
  With(_get_cached_icon(m, e, file_path, ~ra), LAMBDA c :
    IF Truthy(c.ret) THEN c
    ELSE With(LnkTargetBranch(c.m, e, ra, file_path), LAMBDA t :
           IF t.done THEN Ret(t.ret, t.m)
           ELSE LnkShellBranch(t.m, e, ra, file_path)))

(***************************************************************************)
(* getIcon: SystemManager.get_file_icon_base64.                            *)
(***************************************************************************)
\* PlainFileIcon without the "if icon_data:" test of line 167
PlainFileIcon_Unchecked(m, e, ra, file_path) ==
  With(_get_cached_icon(m, e, file_path, FALSE), LAMBDA c :
    IF Truthy(c.ret) THEN Ret(B64(c.ret), c.m)
    ELSE With(get_icon_win32(c.m, e, ra, file_path), LAMBDA w :
           Ret(B64(w.ret), _save_icon_to_cache(w.m, e, file_path, w.ret, FALSE))))

\* lines 159-175: the plain-file path, also reached when a resolver gave nothing
PlainFileIcon(m, e, ra, file_path) ==
  With(_get_cached_icon(m, e, file_path, FALSE), LAMBDA c :
    IF Truthy(c.ret) THEN Ret(B64(c.ret), c.m)
    ELSE With(get_icon_win32(c.m, e, ra, file_path), LAMBDA w :
           IF Truthy(w.ret)
           THEN Ret(B64(w.ret),
                    _save_icon_to_cache(w.m, e, file_path, w.ret, FALSE))
           ELSE Ret(NoResult, w.m)))

\* get_file_icon_base64 without the os.path.exists test of line 126
get_file_icon_base64_NoExists(m, e, ra, file_path) ==
  IF ~(EndsWithLower(file_path, ".lnk") \/ EndsWithLower(file_path, ".url"))
  THEN PlainFileIcon(m, e, ra, file_path)
  ELSE With(_get_cached_icon(m, e, file_path, ~ra), LAMBDA c :
         IF Truthy(c.ret) THEN Ret(B64(c.ret), c.m)
         ELSE With(IF EndsWithLower(file_path, ".lnk")
                   THEN get_lnk_icon(c.m, e, ra, file_path)
                   ELSE get_url_icon(c.m, e, ra, file_path), LAMBDA s :
                IF Truthy(s.ret) THEN Ret(B64(s.ret), s.m)
                ELSE PlainFileIcon(s.m, e, ra, file_path)))

\* get_file_icon_base64 looking up the arrow slot whatever remove_arrow is
get_file_icon_base64_ArrowSlot(m, e, ra, file_path) ==
  IF ~Exists(e, file_path) THEN Ret(NoResult, m)
  ELSE IF ~(EndsWithLower(file_path, ".lnk") \/ EndsWithLower(file_path, ".url"))
  THEN PlainFileIcon(m, e, ra, file_path)
  ELSE With(_get_cached_icon(m, e, file_path, TRUE), LAMBDA c :
         IF Truthy(c.ret) THEN Ret(B64(c.ret), c.m)
         ELSE With(IF EndsWithLower(file_path, ".lnk")
                   THEN get_lnk_icon(c.m, e, ra, file_path)
                   ELSE get_url_icon(c.m, e, ra, file_path), LAMBDA s :
                IF Truthy(s.ret) THEN Ret(B64(s.ret), s.m)
                ELSE PlainFileIcon(s.m, e, ra, file_path)))

\* get_file_icon_base64 looking up the plain slot whatever remove_arrow is
get_file_icon_base64_PlainSlot(m, e, ra, file_path) ==
  IF ~Exists(e, file_path) THEN Ret(NoResult, m)
  ELSE IF ~(EndsWithLower(file_path, ".lnk") \/ EndsWithLower(file_path, ".url"))
  THEN PlainFileIcon(m, e, ra, file_path)
  ELSE With(_get_cached_icon(m, e, file_path, FALSE), LAMBDA c :
         IF Truthy(c.ret) THEN Ret(B64(c.ret), c.m)
         ELSE With(IF EndsWithLower(file_path, ".lnk")
                   THEN get_lnk_icon(c.m, e, ra, file_path)
                   ELSE get_url_icon(c.m, e, ra, file_path), LAMBDA s :
                IF Truthy(s.ret) THEN Ret(B64(s.ret), s.m)
                ELSE PlainFileIcon(s.m, e, ra, file_path)))

get_file_icon_base64(m, e, ra, file_path) ==
  IF ~Exists(e, file_path) THEN Ret(NoResult, m)
  ELSE IF ~(EndsWithLower(file_path, ".lnk") \/ EndsWithLower(file_path, ".url"))
  THEN PlainFileIcon(m, e, ra, file_path)
  ELSE With(_get_cached_icon(m, e, file_path, ~ra), LAMBDA c :
         IF Truthy(c.ret) THEN Ret(B64(c.ret), c.m)
         ELSE With(IF EndsWithLower(file_path, ".lnk")
                   THEN get_lnk_icon(c.m, e, ra, file_path)
                   ELSE get_url_icon(c.m, e, ra, file_path), LAMBDA s :
                IF Truthy(s.ret) THEN Ret(B64(s.ret), s.m)
                ELSE PlainFileIcon(s.m, e, ra, file_path)))

(***************************************************************************)
(* FileManager.get_file_icon: the generic icon of the file list.           *)
(***************************************************************************)
IconSizes == {16, 32}

\* lines 572-616: SHGetFileInfoW, and ExtractIconEx when it returns 0
FmAcquire(m, e, file_path, size) ==
  LET m1 == Native(m, "SHGetFileInfoW", file_path, 0, FALSE)
      m2 == Native(m1, "ExtractIconEx", file_path, 0, FALSE)
      large == Acquire(m2, "ExtractIconEx", file_path, 0, FALSE)
      small == Acquire(large.m, "ExtractIconEx.small", file_path, 0, FALSE)
  IN IF e.infoOK THEN Acquire(m1, "SHGetFileInfoW", file_path, 0, FALSE)
     ELSE IF ~e.extractOK THEN Ret(NoHandle, m2)
     ELSE IF size >= 32 THEN Ret(large.ret, DestroyIcon(small.m, small.ret))
     ELSE Ret(small.ret, DestroyIcon(small.m, large.ret))

\* lines 622-660: draw, read back, convert, then release and encode; any
\* exception leaves through the outer handler
get_file_icon(m, e, file_path, size) ==
  IF ~Exists(e, file_path) THEN Ret(NoResult, m)
  ELSE With(FmAcquire(m, e, file_path, size), LAMBDA a :
       With(Log(a.m, Event("draw", a.ret.id, a.ret.api, a.ret.tgt, a.ret.idx,
                           a.ret.ov)), LAMBDA drawn :
         IF a.ret = NoHandle THEN Ret(NoResult, a.m)
         ELSE IF e.render = "surface" THEN Ret(NoResult, a.m)
         ELSE IF e.render \in {"draw", "bits", "conv"} THEN Ret(NoResult, drawn)
         ELSE Ret(DataUri(PngOf(a.ret)), DestroyIcon(drawn, a.ret))))

(***************************************************************************)
(* The machines.  Fields that the entry on disk never consults are kept at *)
(* one value.                                                              *)
(***************************************************************************)
IcoFrames == 3

U_NONE == <<HeaderLine, UrlLine>>

U_ICO2 == <<HeaderLine, IconFileLine(ICO_PATH), IconIndexLine(2), UrlLine>>

U_DLL2 == <<HeaderLine, UrlLine, IconFileLine(DLL_PATH), IconIndexLine(2)>>

U_MISSING == <<IconFileLine(MISSING_ICO), IconIndexLine(2)>>

U_BAD == <<IconIndexLine(2), BadIndexLine, IconFileLine(ICO_PATH)>>

Renders == {"ok", "surface", "draw", "bits", "conv"}

Env(present, pil, render, arrowOK, extractOK, infoOK, overlayOK, cacheR, cacheW, link, urlReadable, urlText, icoOK, icoFrames) ==
  [present |-> present, pil |-> pil, render |-> render, arrowOK |-> arrowOK,
   extractOK |-> extractOK, infoOK |-> infoOK, overlayOK |-> overlayOK,
   cacheR |-> cacheR, cacheW |-> cacheW, link |-> link,
   urlReadable |-> urlReadable, urlText |-> urlText, icoOK |-> icoOK,
   icoFrames |-> icoFrames]

\* the imaging library, the renderer and the compositor
Imaging ==
  {<<TRUE, r, a>> : r \in Renders, a \in BOOLEAN}
    \cup {<<FALSE, r, FALSE>> : r \in Renders \ {"conv"}}

FileEnvs ==
  {Env(FILE_PATH, i[1], i[2], FALSE, x, f, FALSE, cr, cw,
       "load_fails", FALSE, <<>>, FALSE, 1) :
     i \in {j \in Imaging : ~j[3]}, x \in BOOLEAN, f \in BOOLEAN,
     cr \in BOOLEAN, cw \in BOOLEAN}

LnkEnvs ==
  {Env(LNK_PATH, i[1], i[2], i[3], x, f, o, cr, cw, l, FALSE, <<>>, FALSE, 1) :
     i \in Imaging, x \in BOOLEAN, f \in BOOLEAN, o \in BOOLEAN,
     cr \in BOOLEAN, cw \in BOOLEAN,
     l \in {"load_fails", "target_exists", "target_no_icon", "target_missing"}}

\* the content of the .url file and of the icon file it names
UrlContents ==
  {<<FALSE, <<>>, FALSE, 1>>}
    \cup {<<TRUE, t, FALSE, 1>> : t \in {U_NONE, U_DLL2, U_MISSING, U_ICO2}}
    \cup {<<TRUE, U_ICO2, TRUE, n>> : n \in {1, IcoFrames}}
    \cup {<<TRUE, U_BAD, TRUE, IcoFrames>>}

UrlEnvs ==
  {e \in {Env(URL_PATH, i[1], i[2], i[3], x, f, FALSE, cr, cw, "load_fails",
              u[1], u[2], u[3], u[4]) :
            i \in Imaging, x \in BOOLEAN, f \in BOOLEAN, cr \in BOOLEAN,
            cw \in BOOLEAN, u \in UrlContents} :
     e.pil \/ ~e.icoOK}

Envs == FileEnvs \cup LnkEnvs \cup UrlEnvs

(***************************************************************************)
(* State.                                                                  *)
(***************************************************************************)
FilesIn(c) == {f \in CacheFiles : c[f] # None}

(***************************************************************************)
(* ConfigManager: the "remove_arrow" entry of self.config (the variable    *)
(* remove_arrow) and of the memo self._config_cache (empty, or the one     *)
(* memoised value).                                                        *)
(***************************************************************************)
\* get("remove_arrow", False): the memoised value when there is one
ConfigManager_get(memo, config) ==
  IF memo # {} THEN CHOOSE v \in memo : TRUE ELSE config

\* set without the memo update of line 472
ConfigManager_set_NoMemo(memo, config, value) ==
  IF config = value THEN [config |-> config, memo |-> memo]
  ELSE [config |-> value, memo |-> memo]

\* set("remove_arrow", value): nothing to do for an equal value, otherwise
\* the entry and the memo are both updated
ConfigManager_set(memo, config, value) ==
  IF config = value THEN [config |-> config, memo |-> memo]
  ELSE [config |-> value, memo |-> {value}]

\* whether a request for p reads the setting (lines 126-137)
ReadsSetting(e, p) ==
  Exists(e, p) /\ (EndsWithLower(p, ".lnk") \/ EndsWithLower(p, ".url"))

NoCall ==
  [op |-> "none", path |-> NoPath, ra |-> FALSE, result |-> NoResult, tr |-> <<>>,
   rep |-> FALSE, prevResult |-> NoResult, hadSlot |-> FALSE, hadDir |-> TRUE,
   afterClear |-> FALSE, wasCached |-> FALSE, clearFailed |-> FALSE,
   count |-> -1, success |-> TRUE, files |-> {}, tried |-> {}, locked |-> {},
   memo |-> {}, changed |-> FALSE, afterSet |-> FALSE,
   variant |-> FALSE, bytes |-> None, param |-> "absent", branch |-> "-"]

(***************************************************************************)
(* Requests in flight.  app.run (app.py line 1330) hands each request to   *)
(* the development server, which serves them one at a time or one thread   *)
(* per request according to the installed Flask; no lock exists in the     *)
(* backend.  pc follows one request through get_icon_win32.                *)
(***************************************************************************)
MaxInFlight == 2

Threads == 1..MaxInFlight

\* the server after start-up: no request in flight
Serving(threaded) == [threaded |-> threaded, pc |-> [t \in Threads |-> "idle"]]

\* positions at which a request holds an icon handle it has not yet released
InSequence == {"draw", "destroy"}

(***************************************************************************)
(* Cache files as the operating system holds them while several requests   *)
(* run (_get_cached_icon lines 78-87, _save_icon_to_cache lines 108-113).  *)
(* A file is a sequence of chunks; open(cache_file, 'wb') creates or       *)
(* truncates it and gives the writer its own offset, f.write puts the      *)
(* bytes at that offset, f.read() returns what the file holds.             *)
(***************************************************************************)
NoFile == [exists |-> FALSE, data |-> <<>>]

NotServed == [found |-> FALSE, data |-> <<>>]

IdleIo == [pc |-> "idle", key |-> <<NoPath, "-">>, data |-> <<>>, off |-> 0]

IoKeys == {CacheFile(FILE_PATH, TRUE), CacheFile(FILE_PATH, FALSE)}

\* the cache directory before any store, no request touching it
IoIdle ==
  [file |-> [k \in IoKeys |-> NoFile], split |-> FALSE,
   th |-> [t \in Threads |-> IdleIo], got |-> NotServed,
   sent |-> [k \in IoKeys |-> {}], failed |-> {}]

(***************************************************************************)
(* The indicator asset (_add_arrow_to_icon lines 769-781, _find_arrow_icon *)
(* lines 811-861): the install-relative candidates in the order of         *)
(* possible_paths, and the file synthesized in the temporary directory.    *)
(***************************************************************************)
possible_paths ==
  <<"../frontend/assets/img/arrow_icon.png", "../assets/img/arrow_icon.png",
    "assets/img/arrow_icon.png">>

temp_arrow_path == "%TEMP%/arrow_icon.png"

NoAssetCall == [pc |-> "idle", path |-> "", res |-> "-"]

\* no candidate installed, nothing synthesized, no request compositing
AssetIdle ==
  [have |-> {}, tmpW |-> TRUE, tmp |-> "absent", made |-> 0,
   th |-> [t \in Threads |-> NoAssetCall]]

(***************************************************************************)
(* The canvas handed to _add_arrow_to_icon (lines 748-809) and where the   *)
(* indicator lands on it.  Every canvas the engine composites onto is      *)
(* IconEdge pixels square (lines 289, 364, 467).                           *)
(***************************************************************************)
IconEdge == 64

\* return None, lines 777-778 and 807-809
NoPlacement ==
  [made |-> FALSE, base |-> "-", arrow_size |-> 0, paste_x |-> 0, paste_y |-> 0, covered |-> {}]

\* no composite in progress
CanvasIdle ==
  [w |-> IconEdge, h |-> IconEdge, pix |-> "blank", zeroOK |-> FALSE,
   done |-> FALSE, out |-> NoPlacement]

(***************************************************************************)
(* Drawing resources of one rendering (_icon_to_bitmap lines 284-373,      *)
(* _get_icon_size lines 375-402): what the platform does at each call and  *)
(* the log of resources obtained ("get") and given back ("free").          *)
(***************************************************************************)
\* no rendering made; every call of the platform succeeds
GdiIdle ==
  [dims |-> TRUE, iconInfo |-> TRUE, color |-> TRUE, failAt |-> "none",
   wrappersFree |-> TRUE, done |-> FALSE, log |-> <<>>]

Init ==
  /\ env \in Envs
  /\ cache = [f \in CacheFiles |-> None]
  /\ cache_dir = TRUE
  /\ remove_arrow = FALSE
  /\ _config_cache = {}
  /\ inflight = Serving(TRUE)
  /\ gdi = GdiIdle
  /\ canvas = CanvasIdle
  /\ asset = AssetIdle
  /\ io = IoIdle
  /\ icon_cache = {}
  /\ lnk_icon_cache = {}
  /\ last = NoCall

IsClear(op) == op \in {"clear", "clearSimple"}

\* the variant whose slot a request for p consults first
FirstSlot(p, ra) ==
  (EndsWithLower(p, ".lnk") \/ EndsWithLower(p, ".url")) /\ ~ra

\* one inbound getIcon request, for the entry on disk or for the missing one
GetIcon(p) ==
  \E ra \in {ConfigManager_get(_config_cache, remove_arrow)} :
  \E r \in {get_file_icon_base64([cache |-> cache, tr |-> <<>>,
                                  dir |-> cache_dir], env, ra, p)} :
     /\ cache' = r.m.cache
     /\ _config_cache' = IF ReadsSetting(env, p) THEN {ra} ELSE _config_cache
     /\ last' = [NoCall EXCEPT
                   !.op = "getIcon", !.path = p, !.ra = ra,
                   !.result = r.ret, !.tr = r.m.tr,
                   !.rep = (last.op = "getIcon" /\ last.path = p
                            /\ last.ra = ra),
                   !.prevResult = IF last.op = "getIcon" /\ last.path = p
                                     /\ last.ra = ra
                                  THEN last.result ELSE NoResult,
                   !.hadDir = cache_dir,
                   !.hadSlot = (cache[CacheFile(p, FirstSlot(p, ra))] # None),
                   !.afterClear = IsClear(last.op),
                   !.wasCached = (IsClear(last.op) /\ p \in {f[1] : f \in last.files}),
                   !.clearFailed = (IsClear(last.op) /\ last.locked # {}),
                   !.memo = _config_cache,
                   !.afterSet = (last.op = "set" /\ last.changed
                                 /\ last.memo # {})]
     /\ UNCHANGED <<env, inflight, gdi, canvas, asset, io, cache_dir, remove_arrow, icon_cache, lnk_icon_cache>>

\* FileManager.get_file_icon(p, size); the module imports the imaging library
\* unconditionally, so a FileManager exists only where it imported
FmGetFileIcon(p, size) ==
  \E r \in {get_file_icon([cache |-> cache, tr |-> <<>>, dir |-> cache_dir],
                          env, p, size)} :
     /\ env.pil
     /\ last' = [NoCall EXCEPT !.op = "fmIcon", !.path = p, !.ra = remove_arrow,
                                !.result = r.ret, !.tr = r.m.tr]
     /\ UNCHANGED <<env, inflight, gdi, canvas, asset, io, cache, cache_dir, remove_arrow, _config_cache, icon_cache,
                    lnk_icon_cache>>

\* ConfigManager.set("remove_arrow", v)
SetRemoveArrow(v) ==
  /\ \E c \in {ConfigManager_set(_config_cache, remove_arrow, v)} :
       /\ remove_arrow' = c.config
       /\ _config_cache' = c.memo
  /\ last' = [NoCall EXCEPT !.op = "set", !.ra = v, !.memo = _config_cache,
                            !.changed = (remove_arrow # v)]
  /\ UNCHANGED <<env, inflight, gdi, canvas, asset, io, cache, cache_dir, icon_cache, lnk_icon_cache>>

(***************************************************************************)
(* clearIconCache: /api/clear-icon-cache and /api/clear-icon-cache-simple. *)
(***************************************************************************)
RECURSIVE Perms(_)
Perms(S) ==
  IF S = {} THEN {<<>>}
  ELSE UNION {{<<x>> \o q : q \in Perms(S \ {x})} : x \in S}

\* the most files that one clear finds locked
MaxLocked == 1

LockedSets(files) == {L \in SUBSET files : Cardinality(L) <= MaxLocked}

\* the loop counting every file it lists without deleting it
RECURSIVE UnlinkLoop_CountOnly(_, _, _, _)
UnlinkLoop_CountOnly(m, order, locked, file_count) ==
  IF order = <<>> THEN [m |-> m, file_count |-> file_count, raised |-> FALSE]
  ELSE IF Head(order) \in locked
       THEN [m |-> [m EXCEPT !.tried = @ \cup {Head(order)}],
             file_count |-> file_count, raised |-> TRUE]
       ELSE UnlinkLoop_CountOnly([m EXCEPT !.tried = @ \cup {Head(order)}],
                                 Tail(order), locked, file_count + 1)

\* for filename in os.listdir(cache_dir): os.unlink(file_path); file_count += 1
\* inside one try: the first unlink that raises ends the loop
RECURSIVE UnlinkLoop(_, _, _, _)
UnlinkLoop(m, order, locked, file_count) ==
  IF order = <<>> THEN [m |-> m, file_count |-> file_count, raised |-> FALSE]
  ELSE IF Head(order) \in locked
       THEN [m |-> [m EXCEPT !.tried = @ \cup {Head(order)}],
             file_count |-> file_count, raised |-> TRUE]
       ELSE UnlinkLoop([m EXCEPT !.tried = @ \cup {Head(order)},
                                 !.cache[Head(order)] = None],
                       Tail(order), locked, file_count + 1)

ClearCall(op, loop) ==
  [NoCall EXCEPT
     !.op = op, !.files = FilesIn(cache), !.tried = loop.m.tried,
     !.locked = loop.m.locked, !.hadDir = cache_dir,
     !.count = IF op = "clear" /\ cache_dir /\ ~loop.raised
               THEN loop.file_count ELSE -1,
     !.success = TRUE]

\* clear_icon_cache: listdir order and the files that cannot be deleted are
\* the environment's choice; a missing directory is created instead (and no
\* count is reported)
ClearIconCache ==
  \E order \in Perms(FilesIn(cache)), locked \in LockedSets(FilesIn(cache)) :
    LET loop == UnlinkLoop([cache |-> cache, tried |-> {}, locked |-> locked],
                           order, locked, 0)
    IN /\ icon_cache' = {}
       /\ lnk_icon_cache' = {}
       /\ cache' = loop.m.cache
       /\ cache_dir' = TRUE
       /\ last' = ClearCall("clear", loop)
       /\ UNCHANGED <<env, inflight, gdi, canvas, asset, io, remove_arrow, _config_cache>>

\* clear_icon_cache_simple: the managers are rebuilt (SystemManager.__init__
\* creates the directory), then the same loop
ClearIconCacheSimple ==
  \E order \in Perms(FilesIn(cache)), locked \in LockedSets(FilesIn(cache)) :
    LET loop == UnlinkLoop([cache |-> cache, tried |-> {}, locked |-> locked],
                           order, locked, 0)
    IN /\ icon_cache' = {}
       /\ lnk_icon_cache' = {}
       /\ cache' = loop.m.cache
       /\ cache_dir' = TRUE
       /\ last' = ClearCall("clearSimple", loop)
       /\ UNCHANGED <<env, inflight, gdi, canvas, asset, io, remove_arrow, _config_cache>>

\* the cache directory is removed from outside the process, with its files
RemoveCacheDir ==
  /\ cache_dir
  /\ cache_dir' = FALSE
  /\ cache' = [f \in DOMAIN cache |-> None]
  /\ last' = [NoCall EXCEPT !.op = "rmdir", !.ra = remove_arrow]
  /\ UNCHANGED <<env, inflight, gdi, canvas, asset, io, remove_arrow, _config_cache, icon_cache, lnk_icon_cache>>

\* /api/reset: ConfigManager.reset_all empties the memo and restores the
\* default setting
ResetAll ==
  /\ remove_arrow' = FALSE
  /\ _config_cache' = {}
  /\ last' = [NoCall EXCEPT !.op = "reset"]
  /\ UNCHANGED <<env, inflight, gdi, canvas, asset, io, cache, cache_dir, icon_cache, lnk_icon_cache>>

At(t, pos) == inflight.pc[t] = pos

Goto(t, pos) ==
  /\ inflight' = [inflight EXCEPT !.pc[t] = pos]
  /\ UNCHANGED <<env, gdi, canvas, asset, io, cache, cache_dir, remove_arrow, _config_cache, icon_cache,
                 lnk_icon_cache, last>>

\* a request reaches get_icon_win32; a server that is not threaded accepts
\* it only when no other request is in flight
ReqStart(t) ==
  /\ At(t, "idle")
  /\ inflight.threaded \/ \A u \in Threads : At(u, "idle")
  /\ Goto(t, "extract")

\* line 198: hicon = self._extract_icon(file_path)
ReqExtract(t) ==
  /\ At(t, "extract")
  /\ Goto(t, IF env.extractOK THEN "draw" ELSE "info")

\* lines 200-206: _get_file_info, return None when it gives nothing
ReqInfo(t) ==
  /\ At(t, "info")
  /\ Goto(t, IF env.infoOK THEN "draw" ELSE "idle")

\* line 209: icon_data = self._icon_to_bitmap(hicon)
ReqDraw(t) ==
  /\ At(t, "draw")
  /\ Goto(t, "destroy")

\* lines 212-214: DestroyIcon(hicon) and return
ReqDestroy(t) ==
  /\ At(t, "destroy")
  /\ Goto(t, "idle")

InitThreaded ==
  /\ env \in Envs
  /\ cache = [f \in CacheFiles |-> None]
  /\ cache_dir = TRUE
  /\ remove_arrow = FALSE
  /\ _config_cache = {}
  /\ icon_cache = {}
  /\ lnk_icon_cache = {}
  /\ last = NoCall
  /\ inflight \in {Serving(b) : b \in BOOLEAN}
  /\ gdi = GdiIdle
  /\ canvas = CanvasIdle
  /\ asset = AssetIdle
  /\ io = IoIdle

NextThreaded ==
  \/ \E t \in Threads : ReqStart(t)
  \/ \E t \in Threads : ReqExtract(t)
  \/ \E t \in Threads : ReqInfo(t)
  \/ \E t \in Threads : ReqDraw(t)
  \/ \E t \in Threads : ReqDestroy(t)

SpecThreaded == InitThreaded /\ [][NextThreaded]_vars

Next ==
  \/ \E p \in {env.present, GONE_PATH} : GetIcon(p)
  \/ \E p \in {env.present, GONE_PATH}, size \in IconSizes : FmGetFileIcon(p, size)
  \/ \E v \in BOOLEAN : SetRemoveArrow(v)
  \/ ClearIconCache
  \/ ClearIconCacheSimple
  \/ RemoveCacheDir
  \/ ResetAll

Spec == Init /\ [][Next]_vars

(***************************************************************************)
(* GET /api/files/icon (app.py lines 578-605) and the method it calls,     *)
(* FileManager.get_file_icon_data (file_manager.py lines 718-820).         *)
(***************************************************************************)
\* positional parameters get_file_icon_data declares after self
get_file_icon_data_params == 1

\* positional arguments the handler passes: file_path, remove_arrow
handler_args == 2

IMAGERES == Path("C:\\Windows\\System32\\imageres", ".dll")

\* configparser option names are folded to lower case
CfgKey(line) == IF line.key \in {"IconFile", "iconfile"} THEN "iconfile" ELSE line.key

\* lines 735-742: config.read and config['InternetShortcut']['IconFile']; a
\* file that cannot be opened is skipped, text before the section header or
\* a repeated option raises, and every such case leaves no icon file
CfgIconFile(e) ==
  IF ~e.urlReadable \/ e.urlText = <<>> THEN NoPath
  ELSE IF e.urlText[1] # HeaderLine THEN NoPath
  ELSE IF \E i \in DOMAIN e.urlText : \E j \in DOMAIN e.urlText :
            i < j /\ CfgKey(e.urlText[i]) = CfgKey(e.urlText[j])
  THEN NoPath
  ELSE IF \A i \in DOMAIN e.urlText : CfgKey(e.urlText[i]) # "iconfile" THEN NoPath
  ELSE e.urlText[CHOOSE i \in DOMAIN e.urlText : CfgKey(e.urlText[i]) = "iconfile"].path

\* lines 770-812 and 840-885: ExtractIconEx, a 32 by 32 bitmap, its bits
ExtractAndDraw(m, e, path) ==
  With(Native(m, "ExtractIconEx", path, 0, FALSE), LAMBDA m1 :
    IF ~(e.extractOK /\ HasIcon(e, path)) THEN Ret(NoResult, m1)
    ELSE With(Acquire(m1, "ExtractIconEx", path, 0, FALSE), LAMBDA large :
         With(Acquire(large.m, "ExtractIconEx.small", path, 0, FALSE), LAMBDA small :
           IF e.render \in {"surface", "draw", "bits"} THEN Ret(NoResult, small.m)
           ELSE Ret(B64(RawBits(large.ret)),
                    DestroyIcon(DestroyIcon(small.m, large.ret), small.ret)))))

\* lines 822-893: the stock icon of the file type, taken from imageres.dll
get_system_icon(m, e) == ExtractAndDraw(m, e, IMAGERES)

\* lines 718-820: the icon file named by a .url, get_lnk_icon for a .lnk,
\* ExtractIconEx on the file itself, and last the stock icon
get_file_icon_data(m, e, ra, file_path) ==
  IF ~Exists(e, file_path) THEN Ret(NoResult, m)
  ELSE IF EndsWithLower(file_path, ".url")
  THEN IF CfgIconFile(e) # NoPath /\ Exists(e, CfgIconFile(e))
       THEN Ret(B64(Blob("file", "icon", "read", CfgIconFile(e), 0, FALSE, FALSE)), m)
       ELSE get_system_icon(m, e)
  ELSE With(IF EndsWithLower(file_path, ".lnk") THEN get_lnk_icon(m, e, ra, file_path)
            ELSE Ret(None, m), LAMBDA l :
         IF Truthy(l.ret) THEN Ret(B64(l.ret), l.m)
         ELSE With(ExtractAndDraw(l.m, e, file_path), LAMBDA x :
                IF x.ret # NoResult THEN x ELSE get_system_icon(x.m, e)))

\* the JSON body of the response and the branch of the handler that made it
Response(success, data, branch) == [success |-> success, data |-> data, branch |-> branch]

\* app.py lines 578-605; a call with more positional arguments than the
\* method declares raises TypeError before the method body runs
api_get_file_icon(m, e, ra, file_path) ==
  IF file_path = NoPath THEN Ret(Response(FALSE, NoResult, "no path"), m)
  ELSE IF handler_args # get_file_icon_data_params
  THEN Ret(Response(FALSE, NoResult, "except"), m)
  ELSE With(get_file_icon_data(m, e, ra, file_path), LAMBDA d :
         IF d.ret # NoResult THEN Ret(Response(TRUE, d.ret, "data"), d.m)
         ELSE Ret(Response(FALSE, NoResult, "no data"), d.m))

\* one GET /api/files/icon?path=p[&remove_arrow=param]
ApiGetFileIcon(p, param) ==
  \E r \in {api_get_file_icon([cache |-> cache, tr |-> <<>>, dir |-> cache_dir],
                              env, remove_arrow, p)} :
     /\ cache' = r.m.cache
     /\ last' = [NoCall EXCEPT !.op = "apiIcon", !.path = p, !.param = param,
                                !.ra = remove_arrow, !.result = r.ret.data,
                                !.success = r.ret.success, !.branch = r.ret.branch,
                                !.tr = r.m.tr, !.hadDir = cache_dir]
     /\ UNCHANGED <<env, cache_dir, remove_arrow, _config_cache, icon_cache,
                    lnk_icon_cache, inflight, io, asset, canvas, gdi>>

RequestParams == {"absent", "true", "0"}

NextApi ==
  \E p \in {env.present, GONE_PATH, NoPath}, param \in RequestParams :
     ApiGetFileIcon(p, param)

SpecApi == Init /\ [][NextApi]_vars

(***************************************************************************)
(* The cache under stores and requests that spell one file in three ways.  *)
(***************************************************************************)
KeyPaths == {FILE_PATH, REL_PATH, UPPER_PATH}

CacheKeys == {CacheFile(p, w) : p \in KeyPaths, w \in BOOLEAN}

\* two PNG images and the empty byte string
IconBytes(n) == Blob("png", "icon", "stored", NoPath, n, FALSE, FALSE)

EmptyBytes == Blob("empty", "-", "-", NoPath, 0, FALSE, FALSE)

StoreBlobs == {IconBytes(1), IconBytes(2), EmptyBytes}

CacheEnvs ==
  {Env(FILE_PATH, TRUE, "ok", FALSE, TRUE, FALSE, FALSE, cr, cw,
       "load_fails", FALSE, <<>>, FALSE, 1) : cr \in BOOLEAN, cw \in BOOLEAN}

\* store(p, v, b): _save_icon_to_cache(p, b, v)
Store(p, v, b) ==
  \E m \in {_save_icon_to_cache([cache |-> cache, tr |-> <<>>,
                                  dir |-> cache_dir], env, p, b, v)} :
     /\ cache' = m.cache
     /\ last' = [NoCall EXCEPT !.op = "store", !.path = p, !.variant = v,
                               !.bytes = b, !.tr = m.tr, !.hadDir = cache_dir,
                               !.ra = remove_arrow]
     /\ UNCHANGED <<env, inflight, gdi, canvas, asset, io, cache_dir, remove_arrow, _config_cache,
                    icon_cache, lnk_icon_cache>>

InitCache ==
  /\ env \in CacheEnvs
  /\ cache = [f \in CacheKeys |-> None]
  /\ cache_dir = TRUE
  /\ remove_arrow = FALSE
  /\ _config_cache = {}
  /\ icon_cache = {}
  /\ lnk_icon_cache = {}
  /\ last = NoCall
  /\ inflight = Serving(TRUE)
  /\ gdi = GdiIdle
  /\ canvas = CanvasIdle
  /\ asset = AssetIdle
  /\ io = IoIdle

NextCache ==
  \/ \E p \in KeyPaths, v \in BOOLEAN, b \in StoreBlobs : Store(p, v, b)
  \/ \E p \in KeyPaths : GetIcon(p)
  \/ RemoveCacheDir

SpecCache == InitCache /\ [][NextCache]_vars

(***************************************************************************)
(* Internet shortcuts of every content up to MaxLines lines: the parse     *)
(* loop of get_url_icon (lines 426-443) under one request after another.   *)
(***************************************************************************)
MaxLines == 3

\* a line whose key differs from IconFile only in case: it matches no key
JunkLine == Line("iconfile", ICO_PATH, FALSE, 0)

LineAlphabet ==
  {UrlLine, JunkLine, BadIndexLine, IconIndexLine(0), IconIndexLine(2),
   IconFileLine(ICO_PATH), IconFileLine(MISSING_ICO)}

Texts == UNION {[1..n -> LineAlphabet] : n \in 0..MaxLines}

ParseEnvs ==
  {Env(URL_PATH, pil, "ok", pil, TRUE, f, FALSE, TRUE, TRUE, "load_fails",
       r, t, pil /\ ok, IcoFrames) :
     pil \in BOOLEAN, f \in BOOLEAN, r \in BOOLEAN, ok \in BOOLEAN, t \in Texts}

InitParse ==
  /\ env \in ParseEnvs
  /\ cache = [f \in CacheFiles |-> None]
  /\ cache_dir = TRUE
  /\ remove_arrow = FALSE
  /\ _config_cache = {}
  /\ icon_cache = {}
  /\ lnk_icon_cache = {}
  /\ last = NoCall
  /\ inflight = Serving(TRUE)
  /\ gdi = GdiIdle
  /\ canvas = CanvasIdle
  /\ asset = AssetIdle
  /\ io = IoIdle

NextParse ==
  \/ GetIcon(URL_PATH)
  \/ \E v \in BOOLEAN : SetRemoveArrow(v)

SpecParse == InitParse /\ [][NextParse]_vars

(***************************************************************************)
(* Stores and lookups of the cache files under the server's scheduling.    *)
(* Whether the bytes of one f.write reach the file in one piece is the     *)
(* platform's choice (io.split), fixed when the process starts.            *)
(***************************************************************************)
StoreContents == {<<"a1", "a2">>, <<"b1">>}

\* bytes a truncation leaves between the end of file and a later offset
Hole == "00"

Larger(a, b) == IF a > b THEN a ELSE b

\* the file after data has been written at offset off
Overlay(file, off, data) ==
  [i \in 1..Larger(Len(file), off + Len(data)) |->
     IF i > off /\ i <= off + Len(data) THEN data[i - off]
     ELSE IF i <= Len(file) THEN file[i]
     ELSE Hole]

IoFree(t) ==
  /\ io.th[t].pc = "idle"
  /\ inflight.threaded \/ \A u \in Threads : io.th[u].pc = "idle"

\* lines 89-108: a non-empty blob, the key, open(cache_file, 'wb')
IoOpen(t, k, d) ==
  /\ IoFree(t)
  /\ io' = [io EXCEPT !.file[k] = [exists |-> TRUE, data |-> <<>>],
                      !.th[t] = [pc |-> "opened", key |-> k, data |-> d, off |-> 0],
                      !.sent[k] = @ \cup {d}, !.failed = @ \ {k}]
  /\ UNCHANGED <<env, gdi, canvas, asset, cache, cache_dir, remove_arrow, _config_cache, icon_cache,
                 lnk_icon_cache, last, inflight>>

\* line 109: f.write(icon_data), then the file is closed
IoWrite(t) ==
  /\ io.th[t].pc = "opened"
  /\ \E n \in {IF io.split THEN 1 ELSE Len(io.th[t].data) - io.th[t].off} :
       io' = [io EXCEPT
                !.file[io.th[t].key].data =
                    Overlay(@, io.th[t].off, SubSeq(io.th[t].data, io.th[t].off + 1, io.th[t].off + n)),
                !.th[t] = IF io.th[t].off + n = Len(io.th[t].data) THEN IdleIo
                          ELSE [@ EXCEPT !.off = @ + n]]
  /\ UNCHANGED <<env, gdi, canvas, asset, cache, cache_dir, remove_arrow, _config_cache, icon_cache,
                 lnk_icon_cache, last, inflight>>

\* lines 78-79: os.path.exists(cache_file)
IoExists(t, k) ==
  /\ IoFree(t)
  /\ io' = IF io.file[k].exists
           THEN [io EXCEPT !.th[t] = [pc |-> "found", key |-> k, data |-> <<>>, off |-> 0]]
           ELSE [io EXCEPT !.got = NotServed]
  /\ UNCHANGED <<env, gdi, canvas, asset, cache, cache_dir, remove_arrow, _config_cache, icon_cache,
                 lnk_icon_cache, last, inflight>>

\* lines 80-82: open(cache_file, 'rb'), f.read(); line 144 serves it when
\* it is not empty
IoRead(t) ==
  /\ io.th[t].pc = "found"
  /\ io' = [io EXCEPT !.th[t] = IdleIo,
                      !.got = [found |-> io.file[io.th[t].key].data # <<>>,
                               data |-> io.file[io.th[t].key].data]]
  /\ UNCHANGED <<env, gdi, canvas, asset, cache, cache_dir, remove_arrow, _config_cache, icon_cache,
                 lnk_icon_cache, last, inflight>>

InitIo ==
  /\ env \in {e \in CacheEnvs : e.cacheR /\ e.cacheW}
  /\ cache = [f \in CacheKeys |-> None]
  /\ cache_dir = TRUE
  /\ remove_arrow = FALSE
  /\ _config_cache = {}
  /\ icon_cache = {}
  /\ lnk_icon_cache = {}
  /\ last = NoCall
  /\ inflight \in {Serving(b) : b \in BOOLEAN}
  /\ gdi = GdiIdle
  /\ canvas = CanvasIdle
  /\ asset = AssetIdle
  /\ io \in {[IoIdle EXCEPT !.split = b] : b \in BOOLEAN}

NextIo ==
  \/ \E t \in Threads, k \in IoKeys, d \in StoreContents : IoOpen(t, k, d)
  \/ \E t \in Threads : IoWrite(t)
  \/ \E t \in Threads, k \in IoKeys : IoExists(t, k)
  \/ \E t \in Threads : IoRead(t)

SpecIo == InitIo /\ [][NextIo]_vars

\* lines 109-113: f.write(icon_data) raises after the file was opened (disk
\* full, device error); the handler prints and nothing removes the file
IoWriteFails(t) ==
  /\ io.th[t].pc = "opened"
  /\ io' = [io EXCEPT !.th[t] = IdleIo, !.failed = @ \cup {io.th[t].key}]
  /\ UNCHANGED <<env, gdi, cache, cache_dir, remove_arrow, _config_cache, icon_cache,
                 lnk_icon_cache, last, inflight, asset, canvas>>

NextIoFail ==
  \/ NextIo
  \/ \E t \in Threads : IoWriteFails(t)

SpecIoFail == InitIo /\ [][NextIoFail]_vars

(***************************************************************************)
(* Compositing requests looking for the indicator asset.  Which candidate  *)
(* files are installed and whether the temporary directory accepts a new   *)
(* file are fixed when the process starts.                                 *)
(***************************************************************************)
\* lines 830-833: the first of possible_paths that exists, "" when none does
FirstExisting(have) ==
  IF \A i \in DOMAIN possible_paths : possible_paths[i] \notin have THEN ""
  ELSE possible_paths[CHOOSE i \in DOMAIN possible_paths :
                        /\ possible_paths[i] \in have
                        /\ \A j \in 1..(i - 1) : possible_paths[j] \notin have]

AssetFree(t) ==
  /\ asset.th[t].pc = "idle"
  /\ inflight.threaded \/ \A u \in Threads : asset.th[u].pc = "idle"

\* lines 769-776 and 815-833: the development path, then possible_paths in order
AssetLocate(t) ==
  /\ AssetFree(t)
  /\ asset' = [asset EXCEPT !.th[t] =
                 IF FirstExisting(asset.have) # ""
                 THEN [pc |-> "open", path |-> FirstExisting(asset.have), res |-> "-"]
                 ELSE [pc |-> "tmpcheck", path |-> "", res |-> "-"]]
  /\ UNCHANGED <<env, gdi, canvas, cache, cache_dir, remove_arrow, _config_cache, icon_cache,
                 lnk_icon_cache, last, inflight, io>>

\* lines 836-843: os.path.exists(temp_arrow_path)
AssetTempCheck(t) ==
  /\ asset.th[t].pc = "tmpcheck"
  /\ asset' = [asset EXCEPT !.th[t] =
                 IF asset.tmp # "absent"
                 THEN [pc |-> "open", path |-> temp_arrow_path, res |-> "-"]
                 ELSE [pc |-> "draw", path |-> "", res |-> "-"]]
  /\ UNCHANGED <<env, gdi, canvas, cache, cache_dir, remove_arrow, _config_cache, icon_cache,
                 lnk_icon_cache, last, inflight, io>>

\* lines 846-853: the triangle is drawn and img.save creates the file, or
\* lines 856-858 and 777-778: the save raises and the composite returns None
AssetSave(t) ==
  /\ asset.th[t].pc = "draw"
  /\ asset' = IF asset.tmpW
              THEN [asset EXCEPT !.tmp = "partial", !.made = @ + 1,
                                 !.th[t] = [pc |-> "saving", path |-> temp_arrow_path, res |-> "-"]]
              ELSE [asset EXCEPT !.th[t] = [pc |-> "idle", path |-> "", res |-> "none"]]
  /\ UNCHANGED <<env, gdi, canvas, cache, cache_dir, remove_arrow, _config_cache, icon_cache,
                 lnk_icon_cache, last, inflight, io>>

\* lines 853-855: img.save has written the whole image and returns
AssetSaved(t) ==
  /\ asset.th[t].pc = "saving"
  /\ asset' = [asset EXCEPT !.tmp = "whole", !.th[t].pc = "open"]
  /\ UNCHANGED <<env, gdi, canvas, cache, cache_dir, remove_arrow, _config_cache, icon_cache,
                 lnk_icon_cache, last, inflight, io>>

\* lines 780-809: Image.open(arrow_icon_path), resize, paste, PNG bytes; an
\* image file that is not complete raises and the composite returns None
AssetOpen(t) ==
  /\ asset.th[t].pc = "open"
  /\ asset' = [asset EXCEPT !.th[t].pc = "idle",
                 !.th[t].res = IF \/ asset.th[t].path \in asset.have
                                  \/ asset.th[t].path = temp_arrow_path /\ asset.tmp = "whole"
                               THEN "image" ELSE "none"]
  /\ UNCHANGED <<env, gdi, canvas, cache, cache_dir, remove_arrow, _config_cache, icon_cache,
                 lnk_icon_cache, last, inflight, io>>

InitAsset ==
  /\ env \in {e \in CacheEnvs : e.cacheR /\ e.cacheW}
  /\ cache = [f \in CacheKeys |-> None]
  /\ cache_dir = TRUE
  /\ remove_arrow = FALSE
  /\ _config_cache = {}
  /\ icon_cache = {}
  /\ lnk_icon_cache = {}
  /\ last = NoCall
  /\ inflight \in {Serving(b) : b \in BOOLEAN}
  /\ gdi = GdiIdle
  /\ canvas = CanvasIdle
  /\ io = IoIdle
  /\ asset \in {[AssetIdle EXCEPT !.have = h, !.tmpW = w, !.tmp = f] :
                  h \in SUBSET {possible_paths[i] : i \in DOMAIN possible_paths},
                  w \in BOOLEAN, f \in {"absent", "whole"}}

NextAsset ==
  \/ \E t \in Threads : AssetLocate(t)
  \/ \E t \in Threads : AssetTempCheck(t)
  \/ \E t \in Threads : AssetSave(t)
  \/ \E t \in Threads : AssetSaved(t)
  \/ \E t \in Threads : AssetOpen(t)

SpecAsset == InitAsset /\ [][NextAsset]_vars

(***************************************************************************)
(* composite as a function of the canvas: _add_arrow_to_icon lines 783-799 *)
(* for canvases of every small size and of the engine's own size.          *)
(***************************************************************************)
MaxEdge == 12

CanvasEdges == (1..MaxEdge) \cup {IconEdge}

Pixels == {"blank", "opaque"}

\* int(n * 0.4) and int(n * 0.1): the product of a non-negative integer and
\* the double nearest to k/10, truncated
IntTimes(n, tenths) == (n * tenths) \div 10

\* lines 795-796: paste clips the indicator to the layer
Pasted(w, h, x, y, edge) ==
  {q \in (x..(x + edge - 1)) \X (y..(y + edge - 1)) :
     q[1] >= 0 /\ q[1] < w /\ q[2] >= 0 /\ q[2] < h}

\* the indicator anchored to the top margin instead of the bottom one
ArrowPlacement_TopAnchored(w, h, pix, zeroOK) ==
  IF IntTimes(w, 4) = 0 /\ ~zeroOK THEN NoPlacement
  ELSE [made |-> TRUE, base |-> pix,
        arrow_size |-> IntTimes(w, 4),
        paste_x |-> IntTimes(w, 1),
        paste_y |-> IntTimes(h, 1),
        covered |-> Pasted(w, h, IntTimes(w, 1), IntTimes(h, 1), IntTimes(w, 4))]

\* lines 783-799: arrow_size, resize (which an imaging library may refuse
\* for an edge of 0), paste_x, paste_y, paste, alpha_composite
ArrowPlacement(w, h, pix, zeroOK) ==
  IF IntTimes(w, 4) = 0 /\ ~zeroOK THEN NoPlacement
  ELSE [made |-> TRUE, base |-> pix,
        arrow_size |-> IntTimes(w, 4),
        paste_x |-> IntTimes(w, 1),
        paste_y |-> h - IntTimes(h, 1) - IntTimes(w, 4),
        covered |-> Pasted(w, h, IntTimes(w, 1), h - IntTimes(h, 1) - IntTimes(w, 4),
                           IntTimes(w, 4))]

Composite ==
  /\ ~canvas.done
  /\ canvas' = [canvas EXCEPT !.done = TRUE,
                  !.out = ArrowPlacement(canvas.w, canvas.h, canvas.pix, canvas.zeroOK)]
  /\ UNCHANGED <<env, gdi, cache, cache_dir, remove_arrow, _config_cache, icon_cache,
                 lnk_icon_cache, last, inflight, io, asset>>

InitCanvas ==
  /\ env \in {e \in CacheEnvs : e.cacheR /\ e.cacheW}
  /\ cache = [f \in CacheKeys |-> None]
  /\ cache_dir = TRUE
  /\ remove_arrow = FALSE
  /\ _config_cache = {}
  /\ icon_cache = {}
  /\ lnk_icon_cache = {}
  /\ last = NoCall
  /\ inflight = Serving(TRUE)
  /\ gdi = GdiIdle
  /\ io = IoIdle
  /\ asset = AssetIdle
  /\ canvas \in {[CanvasIdle EXCEPT !.w = w, !.h = h, !.pix = p, !.zeroOK = z] :
                   w \in CanvasEdges, h \in CanvasEdges, p \in Pixels, z \in BOOLEAN}

NextCanvas == Composite

SpecCanvas == InitCanvas /\ [][NextCanvas]_vars

(***************************************************************************)
(* render as a sequence of resource events, for every outcome of the       *)
(* platform calls it makes.                                                *)
(***************************************************************************)
Get(log, res) == Append(log, [ev |-> "get", res |-> res])

Free(log, res) == Append(log, [ev |-> "free", res |-> res])

\* the calls of lines 293-325 at which the rendering can raise
FailPoints == {"none", "GetDC", "CreateCompatibleDC", "CreateCompatibleBitmap",
               "DrawIconEx", "GetBitmapBits"}

\* lines 375-402: GetIconDimensions, else GetIconInfo, whose two bitmaps are
\* deleted at lines 395-396 only when GetObject(hbm_color) gave a bitmap
_get_icon_size(log, g) ==
  IF g.dims THEN log
  ELSE IF ~g.iconInfo THEN log
  ELSE IF ~g.color THEN Get(log, "hbmMask")
  ELSE Free(Free(Get(Get(log, "hbmMask"), "hbmColor"), "hbmMask"), "hbmColor")

\* lines 293-298: GetDC(0), CreateCompatibleDC, CreateBitmap and
\* CreateCompatibleBitmap, up to the call that raises
Surface(log, g) ==
  IF g.failAt = "GetDC" THEN log
  ELSE IF g.failAt = "CreateCompatibleDC" THEN Get(log, "screenDC")
  ELSE IF g.failAt = "CreateCompatibleBitmap" THEN Get(Get(log, "screenDC"), "memDC")
  ELSE Get(Get(Get(log, "screenDC"), "memDC"), "bitmap")

\* no statement of _icon_to_bitmap releases anything; when it returns its
\* locals are dropped, and the wrapper objects of the memory device context
\* and of the bitmap may delete what they own
DropLocals(log, g) ==
  IF ~g.wrappersFree THEN log
  ELSE IF \E i \in DOMAIN log : log[i] = [ev |-> "get", res |-> "bitmap"]
  THEN Free(Free(log, "memDC"), "bitmap")
  ELSE IF \E i \in DOMAIN log : log[i] = [ev |-> "get", res |-> "memDC"]
  THEN Free(log, "memDC")
  ELSE log

\* lines 284-373 as far as resources go: size probe, surface, return
IconToBitmapResources(g) == DropLocals(Surface(_get_icon_size(<<>>, g), g), g)

Render ==
  /\ ~gdi.done
  /\ gdi' = [gdi EXCEPT !.done = TRUE, !.log = IconToBitmapResources(gdi)]
  /\ UNCHANGED <<env, cache, cache_dir, remove_arrow, _config_cache, icon_cache,
                 lnk_icon_cache, last, inflight, io, asset, canvas>>

InitRender ==
  /\ env \in {e \in CacheEnvs : e.cacheR /\ e.cacheW}
  /\ cache = [f \in CacheKeys |-> None]
  /\ cache_dir = TRUE
  /\ remove_arrow = FALSE
  /\ _config_cache = {}
  /\ icon_cache = {}
  /\ lnk_icon_cache = {}
  /\ last = NoCall
  /\ inflight = Serving(TRUE)
  /\ io = IoIdle
  /\ asset = AssetIdle
  /\ canvas = CanvasIdle
  /\ gdi \in {[GdiIdle EXCEPT !.dims = d, !.iconInfo = i, !.color = c,
                              !.failAt = f, !.wrappersFree = w] :
                d \in BOOLEAN, i \in BOOLEAN, c \in BOOLEAN, f \in FailPoints,
                w \in BOOLEAN}

NextRender == Render

SpecRender == InitRender /\ [][NextRender]_vars

(***************************************************************************)
(* Properties.                                                             *)
(***************************************************************************)
IsGet == last.op = "getIcon"

Natives(tr) == Count(tr, "native")

Hits(tr) == Count(tr, "hit")

Stores(tr) == Count(tr, "store")

\* the request found a cache entry or some strategy yielded a rendered icon
Produced(tr) ==
  \E i \in DOMAIN tr :
    \/ tr[i].ev = "hit"
    \/ tr[i].ev = "decode"
    \/ tr[i].ev = "render" /\ tr[i].api # "none"

C4_FreshAfterClear ==
  (IsGet /\ last.afterClear /\ last.wasCached) =>
    /\ Hits(last.tr) = 0
    /\ Natives(last.tr) >= 1

\* C5: a deletion that fails is skipped, every other file is still
\* attempted and removed, the count of removed files is reported and no error
\* is surfaced.
C5_FailedDeletionSkipped ==
  IsClear(last.op) =>
    /\ last.tried = last.files
    /\ FilesIn(cache) = last.locked
    /\ last.success
    /\ last.op = "clear" =>
         last.count = Cardinality(last.files) - Cardinality(last.locked)

\* C6: when no deletion fails, a clear of the existing cache directory
\* leaves no files in it, leaves the in-memory maps empty, and
\* clear_icon_cache reports as count the number of files the directory held
\* when the clear started.
C6_CleanClearEmpties ==
  (IsClear(last.op) /\ last.hadDir /\ last.locked = {}) =>
    /\ FilesIn(cache) = {}
    /\ last.tried = last.files
    /\ icon_cache = {}
    /\ lnk_icon_cache = {}
    /\ last.success
    /\ last.op = "clear" => last.count = Cardinality(last.files)

\* a clear_icon_cache that found both variants of an entry and deleted them
C6_Witness ==
  /\ last.op = "clear" /\ last.locked = {}
  /\ Cardinality(last.files) = 2
  /\ last.count = 2
  /\ FilesIn(cache) = {}

\* C7: every icon handle acquired during a resolution is released exactly
\* once before the resolution returns, and no handle is drawn from after its
\* release; SystemManager and FileManager resolutions alike.
C7_HandlesReleasedOnce ==
  LET tr == last.tr
  IN \A i \in DOMAIN tr :
       tr[i].ev = "acquire" =>
         /\ Cardinality({j \in DOMAIN tr :
                           tr[j].ev = "release" /\ tr[j].h = tr[i].h}) = 1
         /\ \A j, k \in DOMAIN tr :
              (tr[j].ev = "release" /\ tr[j].h = tr[i].h
               /\ tr[k].ev = "draw" /\ tr[k].h = tr[i].h) => k < j

\* C8: on any drawing failure (surface creation, icon draw, pixel read-back
\* or image conversion) _icon_to_bitmap returns the flat gray image, never
\* nothing and never raw pixel data.
C8_GrayOnDrawingFailure ==
  \A i \in DOMAIN last.tr :
    (last.tr[i].ev = "render" /\ env.render # "ok") =>
      last.tr[i].api = "gray-png"

\* C9: every file in the cache directory holds a PNG-encoded image.
C9_CacheHoldsPng ==
  \A f \in FilesIn(cache) : cache[f].fmt = "png"

\* C10: for an internet shortcut whose IconFile names an existing path, the
\* shortcut file itself is never queried, and a freshly resolved icon is the
\* one of IconFile at IconIndex.
C10_IconFileAtIndex ==
  LET fs == ParseUrlFile(env)
  IN (/\ IsGet /\ last.path = URL_PATH /\ Exists(env, URL_PATH)
      /\ fs.icon_file # NoPath /\ Exists(env, fs.icon_file)) =>
       /\ \A i \in DOMAIN last.tr :
            last.tr[i].ev = "native" => last.tr[i].tgt # URL_PATH
       /\ (last.result.kind = "b64" /\ Hits(last.tr) = 0) =>
            /\ last.result.data.tgt = fs.icon_file
            /\ last.result.data.idx = fs.icon_index

\* C11: for a shortcut whose target is gone and whose own icon-file and
\* icon-index fields are valid, a fresh resolution queries that icon file at
\* that index and returns its icon, not one from another source.
C11_LnkIconFieldsUsed ==
  (/\ IsGet /\ last.path = LNK_PATH /\ Exists(env, LNK_PATH)
   /\ env.link = "target_missing" /\ Exists(env, LnkIconLocation.icon_file)
   /\ Hits(last.tr) = 0) =>
    /\ \E i \in DOMAIN last.tr :
         /\ last.tr[i].ev = "native"
         /\ last.tr[i].tgt = LnkIconLocation.icon_file
         /\ last.tr[i].idx = LnkIconLocation.icon_index
    /\ last.result.kind = "b64" =>
         /\ last.result.data.tgt = LnkIconLocation.icon_file
         /\ last.result.data.idx = LnkIconLocation.icon_index

\* C12: a store made after the cache directory has been removed creates the
\* directory, so the bytes a fresh resolution returned are found by a lookup.
C12_StoreCreatesDirectory ==
  (/\ IsGet /\ ~last.hadDir /\ env.cacheW /\ env.cacheR
   /\ last.result.kind = "b64") =>
    \E w \in BOOLEAN :
      _get_cached_icon([cache |-> cache, tr |-> <<>>, dir |-> cache_dir],
                       env, last.path, w).ret = last.result.data

\* the state a request for p would see now
Now == [cache |-> cache, tr |-> <<>>, dir |-> cache_dir]

\* a shortcut on disk was resolved natively to an icon, with a writable cache
FreshShortcutIcon ==
  /\ IsGet /\ Exists(env, last.path)
  /\ EndsWithLower(last.path, ".lnk") \/ EndsWithLower(last.path, ".url")
  /\ last.result.kind = "b64" /\ Natives(last.tr) >= 1
  /\ last.hadDir /\ env.cacheW

\* C13 as stated: after a successful resolution of a shortcut the plain
\* variant is in the cache, with the indicator requested the indicator variant
\* is in the cache too, and a following request without the indicator is
\* served from the cache without any native call.
C13_BothVariantsStored ==
  FreshShortcutIcon =>
    /\ cache[CacheFile(last.path, FALSE)] # None
    /\ ~last.ra => cache[CacheFile(last.path, TRUE)] # None
    /\ env.cacheR =>
         Natives(get_file_icon_base64(Now, env, TRUE, last.path).m.tr) = 0

\* C13 amended: after a successful resolution of a shortcut the plain variant
\* is in the cache; with the indicator requested, either the indicator
\* variant is in the cache and is the image returned, or none could be made,
\* the indicator slot is empty and the plain variant is the image returned; a
\* following request without the indicator is served the plain variant from
\* the cache without any native call.
C13_DerivableVariantsStored ==
  FreshShortcutIcon =>
    /\ cache[CacheFile(last.path, FALSE)] # None
    /\ ~last.ra =>
         \/ cache[CacheFile(last.path, TRUE)] = last.result.data
         \/ /\ cache[CacheFile(last.path, TRUE)] = None
            /\ cache[CacheFile(last.path, FALSE)] = last.result.data
    /\ env.cacheR =>
         /\ Natives(get_file_icon_base64(Now, env, TRUE, last.path).m.tr) = 0
         /\ get_file_icon_base64(Now, env, TRUE, last.path).ret
              = B64(cache[CacheFile(last.path, FALSE)])

\* a link resolved with the indicator: both variants are stored
C13_Witness ==
  /\ FreshShortcutIcon /\ ~last.ra /\ last.path = LNK_PATH
  /\ last.result.data.arrow
  /\ cache[CacheFile(last.path, FALSE)] # None
  /\ cache[CacheFile(last.path, TRUE)] = last.result.data

\* the result of a request for the shortcut made with the indicator wanted
ShortcutIconWithIndicator ==
  /\ IsGet /\ Exists(env, last.path) /\ ~last.ra
  /\ EndsWithLower(last.path, ".lnk") \/ EndsWithLower(last.path, ".url")
  /\ last.result.kind = "b64"

\* what getIcon for the same path returns now without the indicator
WithoutIndicator == get_file_icon_base64(Now, env, TRUE, last.path).ret

NativeCalls(tr) == SelectSeq(tr, LAMBDA x : x.ev = "native")

\* C17: for a file resolved natively the icon queries come first and the raw
\* indexed extraction last, nothing is tried after the first success, and
\* "not found" is reported only after three strategies were tried.
C17_ThreeStrategiesInOrder ==
  (IsGet /\ last.path = FILE_PATH /\ Exists(env, FILE_PATH)
   /\ Hits(last.tr) = 0) =>
    /\ NativeCalls(last.tr) # <<>>
    /\ NativeCalls(last.tr)[1].api = "SHGetFileInfoW"
    /\ \A i, j \in DOMAIN NativeCalls(last.tr) :
         (NativeCalls(last.tr)[i].api = "ExtractIconExW" /\ j # i) => j < i
    /\ \A i, j \in DOMAIN last.tr :
         (i < j /\ last.tr[i].ev = "acquire") => last.tr[j].ev # "native"
    /\ last.result.kind = "none" => Len(NativeCalls(last.tr)) = 3

\* the handles a trace acquired and has not released
Unreleased(tr) ==
  {tr[i].h : i \in {k \in DOMAIN tr : tr[k].ev = "acquire"}}
    \ {tr[i].h : i \in {k \in DOMAIN tr : tr[k].ev = "release"}}

\* handle h is released in tr after position i and before any later native call
ReleasedBeforeNextCall(tr, i) ==
  \E j \in DOMAIN tr :
    /\ j > i /\ tr[j].ev = "release" /\ tr[j].h = tr[i].h
    /\ \A k \in DOMAIN tr : (i < k /\ k < j) => tr[k].ev # "native"

\* C18: a strategy leaves unreleased at most the handle it returns, and in a
\* request the small icon that came with the large one is released before
\* any further native call.
C18_UnselectedHandlesReleased ==
  /\ \A p \in {env.present} :
       /\ Unreleased(_extract_icon(Now, env, p).m.tr)
            \subseteq {_extract_icon(Now, env, p).ret.id} \ {NoHandle.id}
       /\ \A size \in IconSizes :
            Unreleased(FmAcquire(Now, env, p, size).m.tr)
              \subseteq {FmAcquire(Now, env, p, size).ret.id} \ {NoHandle.id}
  /\ IsGet =>
       \A i \in DOMAIN last.tr :
         (last.tr[i].ev = "acquire" /\ last.tr[i].api = "ExtractIconExW.small")
           => ReleasedBeforeNextCall(last.tr, i)

C18_Witness ==
  /\ IsGet /\ last.path = FILE_PATH
  /\ \E i \in DOMAIN last.tr :
       /\ last.tr[i].ev = "acquire" /\ last.tr[i].api = "ExtractIconExW.small"
       /\ ReleasedBeforeNextCall(last.tr, i)
  /\ Count(last.tr, "draw") = 1
  /\ Unreleased(last.tr) = {}

\* a fresh resolution of the link whose resolved target exists on disk
LinkWithTargetResolved ==
  /\ IsGet /\ last.path = LNK_PATH /\ Exists(env, LNK_PATH)
  /\ Exists(env, TARGET_PATH) /\ last.tr[1].ev = "miss"

\* the icon queries of a call: its native calls other than the link load
IconQueries(tr) ==
  SelectSeq(tr, LAMBDA x : x.ev = "native" /\ x.api # "ShellLinkLoad")

\* an icon of the target was rendered in the call
TargetIconRendered(tr) ==
  \E i \in DOMAIN tr :
    tr[i].ev = "render" /\ tr[i].tgt = TARGET_PATH /\ tr[i].api \in {"png", "raw"}

\* C19 as stated: with the target on disk every icon query is made on the
\* target, none asks for the link overlay, and what the plain slot holds is
\* an icon of the target.
C19_TargetOnlyNoOverlay ==
  LinkWithTargetResolved =>
    /\ \A i \in DOMAIN IconQueries(last.tr) :
         IconQueries(last.tr)[i].tgt = TARGET_PATH /\ ~IconQueries(last.tr)[i].ov
    /\ cache[CacheFile(LNK_PATH, FALSE)] # None =>
         /\ cache[CacheFile(LNK_PATH, FALSE)].tgt = TARGET_PATH
         /\ cache[CacheFile(LNK_PATH, FALSE)].pic = "icon"

\* C19 amended: with the target on disk the first icon query is made on the
\* target without the overlay; when an icon of the target is rendered, no
\* query is made on anything else, none asks for the overlay, and the plain
\* slot, when written, holds that icon.
C19_TargetFirstNoOverlay ==
  LinkWithTargetResolved =>
    /\ IconQueries(last.tr) # <<>>
    /\ IconQueries(last.tr)[1].tgt = TARGET_PATH /\ ~IconQueries(last.tr)[1].ov
    /\ TargetIconRendered(last.tr) =>
         /\ \A i \in DOMAIN IconQueries(last.tr) :
              IconQueries(last.tr)[i].tgt = TARGET_PATH /\ ~IconQueries(last.tr)[i].ov
         /\ last.result.kind = "b64" /\ last.result.data.tgt = TARGET_PATH
         /\ (last.hadDir /\ env.cacheW) =>
              /\ cache[CacheFile(LNK_PATH, FALSE)].tgt = TARGET_PATH
              /\ cache[CacheFile(LNK_PATH, FALSE)].pic = "icon"
              /\ ~cache[CacheFile(LNK_PATH, FALSE)].arrow
         /\ cache[CacheFile(LNK_PATH, FALSE)] # None =>
              cache[CacheFile(LNK_PATH, FALSE)].tgt = TARGET_PATH

C19_Witness ==
  /\ LinkWithTargetResolved /\ TargetIconRendered(last.tr) /\ ~last.ra
  /\ last.result.kind = "b64" /\ last.result.data.arrow
  /\ cache[CacheFile(LNK_PATH, FALSE)].tgt = TARGET_PATH
  /\ cache[CacheFile(LNK_PATH, FALSE)].pic = "icon"

\* a fresh resolution of the link with the indicator requested
LinkWithIndicatorResolved ==
  /\ IsGet /\ last.path = LNK_PATH /\ Exists(env, LNK_PATH) /\ ~last.ra
  /\ last.tr[1].ev = "miss"

\* positions of the overlay queries on the shortcut file
OverlayQueries(tr) ==
  {i \in DOMAIN tr : tr[i].ev = "native" /\ tr[i].ov /\ tr[i].tgt = LNK_PATH}

\* the overlay query gave an image the code takes (any non-empty rendering)
OverlayUsable(tr) ==
  \E i \in DOMAIN tr : tr[i].ev = "render" /\ tr[i].ov /\ tr[i].api # "none"

\* C20: an indicator composited onto the shortcut file's own icon is
\* returned only after the native overlay query was made and gave no usable
\* image; a usable overlay image is never composited; the arrow slot never
\* holds an image with both.
C20_NativeOverlayFirst ==
  /\ LinkWithIndicatorResolved =>
       /\ (last.result.kind = "b64" /\ last.result.data.arrow
            /\ last.result.data.tgt = LNK_PATH) =>
             OverlayQueries(last.tr) # {} /\ ~OverlayUsable(last.tr)
       /\ OverlayUsable(last.tr) =>
             /\ last.result.kind = "b64" /\ ~last.result.data.arrow
             /\ Cardinality(OverlayQueries(last.tr)) = 1
  /\ ~(cache[CacheFile(LNK_PATH, TRUE)].ov /\ cache[CacheFile(LNK_PATH, TRUE)].arrow)

C20_Witness ==
  /\ LinkWithIndicatorResolved
  /\ last.result.kind = "b64" /\ last.result.data.arrow
  /\ last.result.data.tgt = LNK_PATH
  /\ OverlayQueries(last.tr) # {}
  /\ cache[CacheFile(LNK_PATH, TRUE)] = last.result.data

\* the last position of lines that satisfies Test, 0 when none does
LastLine(lines, Test(_)) ==
  IF \E i \in DOMAIN lines : Test(lines[i])
  THEN CHOOSE i \in DOMAIN lines :
         Test(lines[i]) /\ \A j \in DOMAIN lines : Test(lines[j]) => j <= i
  ELSE 0

\* the fields a text determines: each key's last well-formed line decides
FieldsOf(lines) ==
  Fields(IF LastLine(lines, LAMBDA l : l.key = "IconFile") = 0 THEN NoPath
         ELSE lines[LastLine(lines, LAMBDA l : l.key = "IconFile")].path,
         IF LastLine(lines, LAMBDA l : l.key = "IconIndex" /\ l.isInt) = 0 THEN 0
         ELSE lines[LastLine(lines, LAMBDA l : l.key = "IconIndex" /\ l.isInt)].n,
         \E i \in DOMAIN lines : lines[i].key = "URL")

\* C21: the parse of an internet shortcut gives, for every text, the fields
\* of each key's last well-formed line (unknown lines and non-integer
\* IconIndex values change nothing), the defaults for an unreadable file,
\* and the request goes on through the fallback chain.
C21_ParseNeverAborts ==
  /\ ParseUrlFile(env) =
       IF env.urlReadable THEN FieldsOf(env.urlText) ELSE DefaultFields
  /\ (IsGet /\ last.path = URL_PATH /\ Hits(last.tr) = 0) =>
       /\ Natives(last.tr) >= 1
       /\ last.result.kind = "none" =>
            /\ \E i \in DOMAIN last.tr : last.tr[i].ev = "native" /\ last.tr[i].api = "SHGetFileInfoW" /\ last.tr[i].tgt = URL_PATH
            /\ \E i \in DOMAIN last.tr : last.tr[i].ev = "native" /\ last.tr[i].api = "ExtractIconExW" /\ last.tr[i].tgt = URL_PATH

C21_Witness ==
  /\ IsGet /\ last.path = URL_PATH /\ Hits(last.tr) = 0
  /\ env.urlReadable /\ Len(env.urlText) = MaxLines
  /\ env.urlText[1] = IconIndexLine(2) /\ env.urlText[2] = BadIndexLine
  /\ env.urlText[3] = JunkLine
  /\ ParseUrlFile(env) = Fields(NoPath, 2, FALSE)
  /\ last.result.kind = "b64"

\* C22: after a store of non-empty bytes b to (p, v) a lookup of (p, v)
\* returns exactly b, and storing b once more changes nothing.
C22_LastWriteWins ==
  (last.op = "store" /\ Truthy(last.bytes) /\ env.cacheW /\ env.cacheR) =>
    /\ _get_cached_icon(Now, env, last.path, last.variant).ret = last.bytes
    /\ _save_icon_to_cache(Now, env, last.path, last.bytes, last.variant).cache
         = cache

\* C23: no cache entry holds the placeholder image of a failed render.
C23_NoPlaceholderStored ==
  \A f \in DOMAIN cache : cache[f].pic # "gray"

\* one step of a store or of a request, seen from the cache
C24_FrameStep ==
  /\ last'.op = "store" =>
       \A f \in DOMAIN cache :
         f # CacheFile(last'.path, last'.variant) => cache'[f] = cache[f]
  /\ last'.op = "getIcon" =>
       \A f \in DOMAIN cache :
         /\ f[1] # last'.path => cache'[f] = cache[f]
         /\ cache[f] # None => cache'[f] # None
  /\ \A p \in KeyPaths, q \in KeyPaths, w \in BOOLEAN, x \in BOOLEAN :
       CacheFile(p, w) = CacheFile(q, x) => (p = q /\ w = x)

\* C24: a store changes only the entry of its own key, a request changes
\* only entries of its own path and deletes none, and distinct path strings
\* (case included) or variants have distinct keys.
C24_OnlyOwnKey == [][C24_FrameStep]_vars

C24_Witness ==
  /\ last.op = "store" /\ last.path = UPPER_PATH /\ Truthy(last.bytes)
  /\ cache[CacheFile(UPPER_PATH, last.variant)] = last.bytes
  /\ cache[CacheFile(FILE_PATH, last.variant)] # None
  /\ cache[CacheFile(FILE_PATH, last.variant)] # last.bytes
  /\ cache[CacheFile(REL_PATH, ~last.variant)] # None

\* C25: the key is that of the absolute path, so after a request by the
\* absolute path has stored its entry, a request naming the same file by
\* a relative path is a cache hit.
C25_RelativeHitsAbsolute ==
  (/\ IsGet /\ last.path = FILE_PATH /\ last.result.kind = "b64"
   /\ cache[CacheFile(FILE_PATH, FALSE)] # None /\ env.cacheR) =>
    /\ CacheFile(REL_PATH, FALSE) = CacheFile(Abspath(REL_PATH), FALSE)
    /\ Hits(get_file_icon_base64(Now, env, remove_arrow, REL_PATH).m.tr) = 1
    /\ Natives(get_file_icon_base64(Now, env, remove_arrow, REL_PATH).m.tr) = 0

\* no store or lookup is between its first and last step
IoQuiet == \A t \in Threads : io.th[t].pc = "idle"

Composited(t) == asset.th[t].pc = "idle" /\ asset.th[t].res # "-"

(***************************************************************************)
(* C28: the indicator asset is the first candidate path, in their fixed    *)
(* order, that exists; when none exists one is synthesized, so compositing *)
(* still yields an image with the indicator and never fails because the    *)
(* asset file is missing.                                                  *)
(***************************************************************************)
C28_AssetAlwaysFound ==
  \A t \in Threads : Composited(t) =>
     /\ asset.th[t].res = "image"
     /\ asset.th[t].path = IF FirstExisting(asset.have) # "" THEN FirstExisting(asset.have)
                           ELSE temp_arrow_path

SaidPlacement(w, h, o) ==
  /\ o.arrow_size = (4 * w) \div 10
  /\ o.paste_x = w \div 10
  /\ o.paste_y = h - (h \div 10) - ((4 * w) \div 10)

\* the pasted indicator is whole, inside the canvas, its bottom-left corner
\* on the left and bottom margins
InsideCanvas(w, h, o) ==
  /\ o.arrow_size >= 1
  /\ Cardinality(o.covered) = o.arrow_size * o.arrow_size
  /\ o.paste_x >= 0 /\ o.paste_x + o.arrow_size <= w
  /\ o.paste_y >= 0 /\ o.paste_y + o.arrow_size <= h
  /\ o.paste_x = w \div 10
  /\ h - (o.paste_y + o.arrow_size) = h \div 10

\* the same canvas with other pixels gets the same placement
ContentBlind ==
  \A p \in Pixels :
    \E o \in {ArrowPlacement(canvas.w, canvas.h, p, canvas.zeroOK)} :
       /\ o.made = canvas.out.made
       /\ o.arrow_size = canvas.out.arrow_size
       /\ o.paste_x = canvas.out.paste_x
       /\ o.paste_y = canvas.out.paste_y
       /\ o.covered = canvas.out.covered

\* canvases whose lower margin leaves room for the scaled indicator
Fits(w, h) == (4 * w) \div 10 >= 1 /\ (4 * w) \div 10 <= h - (h \div 10)

(***************************************************************************)
(* C30 as stated: for every canvas w by h, composite scales the indicator  *)
(* to floor(0.4 w), pastes it at (floor(0.1 w), h - floor(0.1 h) -         *)
(* floor(0.4 w)), the pasted indicator lies entirely inside the canvas     *)
(* with its bottom-left corner within the 10% margins, and the placement   *)
(* does not depend on the pixels.                                          *)
(***************************************************************************)
C30_PlacementInside ==
  canvas.done =>
    /\ canvas.out.made
    /\ SaidPlacement(canvas.w, canvas.h, canvas.out)
    /\ InsideCanvas(canvas.w, canvas.h, canvas.out)
    /\ ContentBlind

(***************************************************************************)
(* C30 amended: whenever composite yields an image the edge and the corner *)
(* have the stated values and do not depend on the pixels; the indicator   *)
(* lies entirely inside the canvas, bottom-left corner on the 10% margins, *)
(* on every canvas with floor(0.4 w) >= 1 and floor(0.4 w) <= h -          *)
(* floor(0.1 h), which includes the 64 by 64 canvases the engine uses; on  *)
(* the other canvases it is clipped at the top or nothing is produced.     *)
(***************************************************************************)
C30_PlacementInsideWhenFits ==
  canvas.done =>
    /\ canvas.out.made => SaidPlacement(canvas.w, canvas.h, canvas.out)
    /\ ContentBlind
    /\ Fits(canvas.w, canvas.h) =>
         canvas.out.made /\ InsideCanvas(canvas.w, canvas.h, canvas.out)
    /\ Fits(IconEdge, IconEdge)
    /\ (canvas.out.made /\ ~Fits(canvas.w, canvas.h)) =>
         Cardinality(canvas.out.covered) < canvas.out.arrow_size * canvas.out.arrow_size
            \/ canvas.out.arrow_size = 0

C30_Witness ==
  /\ canvas.done /\ canvas.w = IconEdge /\ canvas.h = IconEdge
  /\ canvas.out.made /\ canvas.out.arrow_size = 25
  /\ canvas.out.paste_x = 6 /\ canvas.out.paste_y = 33
  /\ Cardinality(canvas.out.covered) = 625

\* the i-th event is a native icon query that gave no handle
FailedQuery(tr, i) ==
  /\ tr[i].ev = "native"
  /\ tr[i].api \in {"ExtractIconExW", "SHGetFileInfoW"}
  /\ i = Len(tr) \/ tr[i + 1].ev # "acquire"

\* the j-th event repeats the native query of the i-th
SameQuery(tr, i, j) ==
  /\ tr[j].ev = "native"
  /\ tr[j].api = tr[i].api /\ tr[j].tgt = tr[i].tgt
  /\ tr[j].idx = tr[i].idx /\ tr[j].ov = tr[i].ov

(***************************************************************************)
(* C31: every getIcon call ends after a bounded number of native           *)
(* extraction calls, and within one request no native strategy that has    *)
(* failed against a target is invoked again against that same target.      *)
(***************************************************************************)
C31_NoRetryOfFailed ==
  IsGet =>
    /\ Natives(last.tr) <= 6
    /\ \A i \in DOMAIN last.tr : \A j \in DOMAIN last.tr :
         (i < j /\ FailedQuery(last.tr, i)) => ~SameQuery(last.tr, i, j)

\* the request looked in the cache first and found nothing it could use
MissedFirst == IsGet /\ last.tr # <<>> /\ last.tr[1].ev = "miss"

\* positions of the trace at which an icon image came into being
Renderings(tr) ==
  {i \in DOMAIN tr : tr[i].ev = "decode" \/ (tr[i].ev = "render" /\ tr[i].api # "none")}

(***************************************************************************)
(* C32 as stated: a cache-miss request goes Detect, Resolve, Extract,      *)
(* Render, optional Composite, Encode, Cache-store, Return: no store       *)
(* happens before rendering and compositing have finished, no extraction   *)
(* happens after a store, and a cache hit performs no Resolve or Extract.  *)
(***************************************************************************)
C32_StagesInOrder ==
  IsGet =>
    /\ \A i \in DOMAIN last.tr : \A j \in DOMAIN last.tr :
         (i < j /\ last.tr[i].ev = "store") =>
            last.tr[j].ev \notin {"native", "acquire", "draw", "render", "decode"}
    /\ \A i \in DOMAIN last.tr :
         last.tr[i].ev = "store" => \E j \in Renderings(last.tr) : j < i
    /\ (last.tr # <<>> /\ last.tr[1].ev = "hit") => Natives(last.tr) = 0

(***************************************************************************)
(* C32 amended: a request looks in the cache before anything else and a    *)
(* hit there ends it with no Resolve or Extract; on a miss every store     *)
(* follows the rendering of the bytes it stores, the plain variant is      *)
(* stored first and the indicator variant last, what is stored in the      *)
(* indicator slot is the finished overlay rendering or composite (or the   *)
(* gray image of a rendering that failed), and the only extraction after a *)
(* store is the overlay query on the shortcut itself, made between the     *)
(* store of the plain variant and that of the indicator variant.           *)
(***************************************************************************)
C32_StoreAfterOwnRender ==
  (IsGet /\ Exists(env, last.path)) =>
    /\ last.tr # <<>> /\ last.tr[1].ev \in {"hit", "miss"}
    /\ last.tr[1].ev = "hit" => (Natives(last.tr) = 0 /\ Len(last.tr) = 1)
    /\ \A i \in DOMAIN last.tr :
         last.tr[i].ev = "store" =>
            /\ last.tr[i].tgt = last.path
            /\ \E j \in Renderings(last.tr) : j < i
            /\ \A j \in DOMAIN last.tr :
                 (i < j /\ last.tr[j].ev = "store") => (~last.tr[i].ov /\ last.tr[j].ov)
            /\ \A j \in DOMAIN last.tr :
                 (i < j /\ last.tr[j].ev = "native") =>
                    /\ ~last.tr[i].ov
                    /\ last.tr[j].api = "SHGetFileInfoW" /\ last.tr[j].ov
                    /\ last.tr[j].tgt = last.path
            /\ last.tr[i].ov =>
                 /\ \A j \in DOMAIN last.tr :
                      i < j => last.tr[j].ev \notin {"native", "acquire", "draw", "render", "decode"}
                 /\ \/ cache[CacheFile(last.path, TRUE)].arrow
                    \/ cache[CacheFile(last.path, TRUE)].ov
                    \/ cache[CacheFile(last.path, TRUE)] = GrayPng

\* a link resolved on a miss: plain variant stored, overlay queried after
\* that store, indicator variant stored last
C32_Witness ==
  /\ MissedFirst /\ last.path = LNK_PATH /\ ~last.ra
  /\ \E i \in DOMAIN last.tr : \E j \in DOMAIN last.tr : \E k \in DOMAIN last.tr :
       /\ i < j /\ j < k
       /\ last.tr[i].ev = "store" /\ ~last.tr[i].ov
       /\ last.tr[j].ev = "native" /\ last.tr[j].ov
       /\ last.tr[k].ev = "store" /\ last.tr[k].ov

\* a shortcut resolved with no slot of the cache serving it, every cache file
\* readable and writable
ShortcutMissWorkingCache ==
  /\ MissedFirst /\ Hits(last.tr) = 0 /\ last.result.kind = "b64"
  /\ EndsWithLower(last.path, ".lnk") \/ EndsWithLower(last.path, ".url")
  /\ env.cacheR /\ env.cacheW /\ last.hadDir /\ cache_dir

\* the slot of p holding variant w gives back exactly the returned bytes
ServedFrom(w) ==
  /\ cache[CacheFile(last.path, w)] = last.result.data
  /\ _get_cached_icon(Now, env, last.path, w).ret = last.result.data

(***************************************************************************)
(* C33 as stated: on a cache miss with a working cache the bytes returned  *)
(* for (p, w) are the bytes the request stored in the slot of the          *)
(* requested variant, so a lookup of that slot right after returns them.   *)
(***************************************************************************)
C33_ReturnedIsRequestedSlot == ShortcutMissWorkingCache => ServedFrom(~last.ra)

(***************************************************************************)
(* C33 amended: on a cache miss with a working cache the bytes returned    *)
(* are bytes the request stored under p: in the slot of the requested      *)
(* variant when the plain variant was requested or the returned image      *)
(* carries the indicator, and in the plain slot otherwise; a lookup of     *)
(* that slot right after returns the same bytes.                           *)
(***************************************************************************)
C33_ReturnedIsStoredSlot ==
  ShortcutMissWorkingCache =>
    /\ ServedFrom(~last.ra) \/ ServedFrom(FALSE)
    /\ (last.ra \/ last.result.data.arrow \/ last.result.data.ov) => ServedFrom(~last.ra)
    /\ Stores(last.tr) >= 1

\* a link resolved with the indicator composited and served from its slot
C33_Witness ==
  /\ ShortcutMissWorkingCache /\ last.path = LNK_PATH /\ ~last.ra
  /\ last.result.data.arrow /\ last.result.data.tgt = TARGET_PATH
  /\ ServedFrom(TRUE) /\ Stores(last.tr) = 2

\* what a lookup of key k is given by the file as it stands
Readable(k) == IF io.file[k].exists THEN io.file[k].data ELSE <<>>

(***************************************************************************)
(* C34: cache I/O failures are absorbed: a failed read is a miss and       *)
(* resolution proceeds, a failed write leaves no entry behind and does not *)
(* change the bytes the request returns.  Here: with requests served one   *)
(* at a time, a key whose last store failed gives later lookups nothing.   *)
(***************************************************************************)
C34_FailedWriteLeavesNothing ==
  (~inflight.threaded /\ IoQuiet) => \A k \in io.failed : Readable(k) = <<>>

\* resources obtained in log and not given back in it
Held(log) ==
  {r \in {log[i].res : i \in DOMAIN log} :
     Cardinality({i \in DOMAIN log : log[i] = [ev |-> "get", res |-> r]})
       > Cardinality({i \in DOMAIN log : log[i] = [ev |-> "free", res |-> r]})}

(***************************************************************************)
(* C35: every drawing resource render creates or obtains (screen device    *)
(* context, memory device context, bitmap, the bitmaps of the size probe)  *)
(* is released before render returns, on success and on every failure.     *)
(***************************************************************************)
C35_DrawingResourcesReleased == gdi.done => Held(gdi.log) = {}

(***************************************************************************)
(* C36: in get_lnk_icon every CoInitialize is balanced by exactly one      *)
(* CoUninitialize on every exit path: target icon returned with or without *)
(* indicator, target missing, target icon unavailable, exception while     *)
(* loading the shortcut.                                                   *)
(***************************************************************************)
C36_ComBalanced ==
  IsGet => Count(last.tr, "couninit") = Count(last.tr, "coinit")

\* a shortcut on disk requested with the indicator wanted, bytes returned
IndicatorWantedServed ==
  /\ IsGet /\ Exists(env, last.path) /\ ~last.ra
  /\ EndsWithLower(last.path, ".lnk") \/ EndsWithLower(last.path, ".url")
  /\ last.result.kind = "b64"

\* the bytes returned were read from the _plain slot
FromPlainSlot ==
  /\ last.tr # <<>>
  /\ last.tr[Len(last.tr)].ev = "hit" /\ ~last.tr[Len(last.tr)].ov

(***************************************************************************)
(* C37 as stated: for a shortcut requested with the indicator wanted,      *)
(* get_file_icon_base64 never returns bytes read from the _plain slot,     *)
(* whatever the cache holds and whatever the resolver does.                *)
(***************************************************************************)
C37_NeverFromPlainSlot == IndicatorWantedServed => ~FromPlainSlot

(***************************************************************************)
(* C37 amended: for a shortcut requested with the indicator wanted, the    *)
(* _arrow slot is looked up first and a hit there is what is returned;     *)
(* bytes read from the _plain slot are returned only after the _arrow slot *)
(* missed and the shortcut resolver yielded no image, and then the request *)
(* stores nothing and returns exactly the content of the _plain slot.      *)
(***************************************************************************)
C37_PlainSlotOnlyAsFallback ==
  IndicatorWantedServed =>
    /\ last.tr[1].ev \in {"hit", "miss"} /\ last.tr[1].ov
    /\ last.tr[1].ev = "hit" => last.result.data = cache[CacheFile(last.path, TRUE)]
    /\ FromPlainSlot =>
         /\ last.tr[1].ev = "miss"
         /\ Renderings(last.tr) = {}
         /\ Stores(last.tr) = 0
         /\ last.result.data = cache[CacheFile(last.path, FALSE)]
         /\ NativeCalls(last.tr) # <<>>

\* a link whose resolver gives nothing, served from the _plain slot
C37_Witness ==
  /\ IndicatorWantedServed /\ FromPlainSlot
  /\ last.path = LNK_PATH /\ env.cacheR
  /\ last.result.data = cache[CacheFile(LNK_PATH, FALSE)]

\* the file named by the request is on disk and get_file_icon_data, given
\* that file, yields icon data
IconResolvable ==
  /\ last.op = "apiIcon" /\ Exists(env, last.path)
  /\ get_file_icon_data([cache |-> cache, tr |-> <<>>, dir |-> cache_dir],
                        env, last.ra, last.path).ret # NoResult

(***************************************************************************)
(* C38: for an existing file whose icon can be resolved the handler of     *)
(* /api/files/icon returns success with non-empty icon data, with or       *)
(* without a remove_arrow parameter, and its call into get_file_icon_data  *)
(* does not end in the handler's error branch.                             *)
(***************************************************************************)
C38_HandlerReturnsIcon ==
  IconResolvable =>
    /\ last.success
    /\ last.result.kind = "b64" /\ Truthy(last.result.data)
    /\ last.branch # "except"

====
